---- MODULE Spec2Model ----
(***************************************************************************)
(* MCPeek: the protocol client (mcp_client.py) over the process transport  *)
(* (transports/stdio.py), with the version detector (version_detection.py) *)
(* and the helpers both use (utils/helpers.py).                            *)
(*                                                                         *)
(* Callers are asyncio tasks on one event loop.  An action is one run of a *)
(* task between two suspension points: a task suspends in                  *)
(* receive_message (asyncio.wait_for on the response queue), in the drain  *)
(* that follows the write of the initialized notification, and in the      *)
(* awaits of _cleanup.                                                     *)
(***************************************************************************)
EXTENDS Integers, Sequences, FiniteSets, TLC

(***************************************************************************)
(* JSON values.  A value is the set of its nodes, each node a pair         *)
(* <<path, leaf>>: path is the sequence of keys (list indices as decimal   *)
(* strings) from the root to the node, leaf is the node's type and, for a  *)
(* scalar, its content.  The root has the empty path.                      *)
(***************************************************************************)
Leaf(t, s, n) == [t |-> t, s |-> s, n |-> n]

JNull == {<< <<>>, Leaf("null", "", 0) >>}

JStr(s) == {<< <<>>, Leaf("str", s, 0) >>}

JNum(n) == {<< <<>>, Leaf("num", "", n) >>}

JFalse == {<< <<>>, Leaf("bool", "", 0) >>}

JEmptyObj == {<< <<>>, Leaf("dict", "", 0) >>}

JEmptyList == {<< <<>>, Leaf("list", "", 0) >>}

\* A dict from a function (or record) of values.
JObj(f) ==
    JEmptyObj \cup UNION {{<< <<k>> \o e[1], e[2] >> : e \in f[k]} : k \in DOMAIN f}

\* A list from a sequence of values.
JList(s) ==
    JEmptyList \cup UNION {{<< <<ToString(i)>> \o e[1], e[2] >> : e \in s[i]} : i \in DOMAIN s}

\* The absence of a value (Python: the key is not in the dict).
JAbsent == {}

TypeOf(v) == IF v = JAbsent THEN "absent" ELSE (CHOOSE e \in v : e[1] = <<>>)[2].t

StrOf(v) == (CHOOSE e \in v : e[1] = <<>>)[2].s

IsDict(v) == TypeOf(v) = "dict"

\* Python: k in v, for a dict v.
Has(v, k) == \E e \in v : Len(e[1]) > 0 /\ e[1][1] = k

\* Python: v[k]; JAbsent when the key is missing.
Get(v, k) == {<<Tail(e[1]), e[2]>> : e \in {y \in v : Len(y[1]) > 0 /\ y[1][1] = k}}

\* Python: v.get(k, d), for a dict v.
GetOr(v, k, d) == IF Has(v, k) THEN Get(v, k) ELSE d

\* Python: v with v[k] = x.
With(v, k, x) ==
    {e \in v : ~(Len(e[1]) > 0 /\ e[1][1] = k)} \cup {<< <<k>> \o e[1], e[2] >> : e \in x}

\* Python: len(v) is defined for str, list and dict and raises TypeError otherwise.
HasLen(v) == TypeOf(v) \in {"str", "list", "dict"}

\* Python: the keys of a dict.
Keys(v) == {e[1][1] : e \in {y \in v : Len(y[1]) = 1}}

(***************************************************************************)
(* utils/helpers.py                                                        *)
(***************************************************************************)
\* TRUE iff validate_json_rpc_message returns without raising ValidationError.
ValidateJsonRpcMessage(m) ==
    /\ IsDict(m)
    /\ Has(m, "jsonrpc")
    /\ Get(m, "jsonrpc") = JStr("2.0")
    /\ \/ Has(m, "method")
       \/ (Has(m, "result") \/ Has(m, "error")) /\ Has(m, "id")

\* f"mcpeek-{int(time.time() * 1000)}" at wall-clock time ms (in milliseconds).
CreateRequestId(ms) == JStr("mcpeek-" \o ToString(ms))

(***************************************************************************)
(* version_detection.py.  A confidence or score is a float in the source;  *)
(* here it is the exact number of sixtieths (every denominator the default *)
(* table produces divides 60: feature counts 6, 3 and 2, weights 1/10 and  *)
(* 1/20).                                                                  *)
(***************************************************************************)
Range(s) == {s[i] : i \in DOMAIN s}

\* n / d in sixtieths.
Ratio(n, d) == (60 * n) \div d

\* 0.1, 0.05 and 0.7 in sixtieths.
MISSING_FEATURE_PENALTY == 6

EXTRA_FEATURE_BONUS == 3

MAX_INFERRED_CONFIDENCE == 42

DEFAULT_VERSION_MAP ==
    << [protocol |-> "2024-11-05", spec_version |-> "1.0.0",
        features |-> <<"basic_tools", "basic_resources", "basic_prompts",
                       "json_rpc_2.0", "capability_negotiation", "initialization_handshake">>],
       [protocol |-> "2024-10-07", spec_version |-> "0.9.0",
        features |-> <<"basic_tools", "basic_resources", "json_rpc_2.0">>],
       [protocol |-> "2024-06-25", spec_version |-> "0.8.0",
        features |-> <<"basic_tools", "json_rpc_2.0">>] >>

\* A required capability "a.b" is the path <<"a", "b">> (capability.split(".")).
FEATURE_PATTERNS ==
    << [name |-> "basic_tools", methods |-> {"tools/list", "tools/call"},
        capabilities |-> {<<"tools">>}],
       [name |-> "basic_resources", methods |-> {"resources/list", "resources/read"},
        capabilities |-> {<<"resources">>}],
       [name |-> "basic_prompts", methods |-> {"prompts/list", "prompts/get"},
        capabilities |-> {<<"prompts">>}],
       [name |-> "advanced_resources", methods |-> {"resources/subscribe", "resources/unsubscribe"},
        capabilities |-> {<<"resources", "subscribe">>, <<"resources", "listChanged">>}],
       [name |-> "sampling_support", methods |-> {},
        capabilities |-> {<<"sampling">>}],
       [name |-> "experimental_features", methods |-> {},
        capabilities |-> {<<"experimental">>}],
       [name |-> "roots_support", methods |-> {},
        capabilities |-> {<<"roots">>, <<"roots", "listChanged">>}] >>

InVersionMap(protocol_version) ==
    \E i \in DOMAIN DEFAULT_VERSION_MAP : DEFAULT_VERSION_MAP[i].protocol = protocol_version

VersionEntry(protocol_version) ==
    DEFAULT_VERSION_MAP[CHOOSE i \in DOMAIN DEFAULT_VERSION_MAP :
                            DEFAULT_VERSION_MAP[i].protocol = protocol_version]

NodeType(v, path) ==
    IF \E e \in v : e[1] = path THEN (CHOOSE e \in v : e[1] = path)[2].t ELSE "absent"

\* _check_capabilities: every required path is found by walking nested dicts.
CheckCapabilities(capabilities, required) ==
    /\ IsDict(capabilities)
    /\ \A p \in required :
          \A k \in 1..Len(p) :
             /\ NodeType(capabilities, SubSeq(p, 1, k - 1)) = "dict"
             /\ NodeType(capabilities, SubSeq(p, 1, k)) # "absent"

FeatureSupported(pattern, capabilities, methods) ==
    LET required_methods == pattern.methods
        methods_satisfied ==
            IF required_methods # {} /\ methods # {}
            THEN required_methods \subseteq methods
            ELSE required_methods = {}
        capabilities_satisfied == CheckCapabilities(capabilities, pattern.capabilities)
    IN  IF required_methods # {} /\ pattern.capabilities # {}
        THEN methods_satisfied /\ capabilities_satisfied
        ELSE IF required_methods # {} THEN methods_satisfied
        ELSE IF pattern.capabilities # {} THEN capabilities_satisfied
        ELSE TRUE

\* _detect_features: the list of detected feature names, in pattern order.
\* methods is the set of supplied method names ({} when none is supplied).
DetectFeatures(capabilities, methods) ==
    LET hit == SelectSeq(FEATURE_PATTERNS,
                         LAMBDA p : FeatureSupported(p, capabilities, methods))
        detected == [i \in DOMAIN hit |-> hit[i].name]
    IN  IF "json_rpc_2.0" \in Range(detected) THEN detected
        ELSE Append(detected, "json_rpc_2.0")

\* _infer_version_from_features: the loop over the table, from entry i on.
RECURSIVE InferFrom(_, _, _, _)
InferFrom(i, best_version, best_score, features) ==
    IF i > Len(DEFAULT_VERSION_MAP) THEN [version |-> best_version, score |-> best_score]
    ELSE LET expected == Range(DEFAULT_VERSION_MAP[i].features)
             detected == Range(features)
             overlap == Cardinality(expected \cap detected)
             missing == Cardinality(expected \ detected)
             extra == Cardinality(detected \ expected)
             score == Ratio(overlap, Cardinality(expected))
                        - missing * MISSING_FEATURE_PENALTY + extra * EXTRA_FEATURE_BONUS
         IN  IF expected # {} /\ score > best_score
             THEN InferFrom(i + 1, DEFAULT_VERSION_MAP[i].spec_version, score, features)
             ELSE InferFrom(i + 1, best_version, best_score, features)

Min(a, b) == IF a < b THEN a ELSE b

Max(a, b) == IF a > b THEN a ELSE b

InferVersionFromFeatures(features) ==
    LET best == InferFrom(1, "unknown", 0, features)
    IN  [spec_version |-> best.version,
         confidence |-> IF best.version # "unknown"
                        THEN Min(MAX_INFERRED_CONFIDENCE, best.score) ELSE 0]

\* _map_protocol_to_spec: 0.7 is 42 sixtieths and 0.9 is 54.
MapProtocolToSpec(protocol_version, features) ==
    IF InVersionMap(protocol_version)
    THEN LET expected == Range(VersionEntry(protocol_version).features)
             matching == Range(features) \cap expected
             confidence == IF expected # {}
                           THEN Ratio(Cardinality(matching), Cardinality(expected)) ELSE 0
         IN  [spec_version |-> VersionEntry(protocol_version).spec_version,
              confidence |-> IF confidence >= 42 THEN Max(confidence, 54) ELSE confidence]
    ELSE InferVersionFromFeatures(features)

DetermineDetectionSource(protocol_version, capabilities) ==
    IF protocol_version # "unknown" THEN "protocol_version (" \o protocol_version \o ")"
    ELSE IF Keys(capabilities) # {} THEN "capability_analysis"
    ELSE "feature_inference"

AssessCompatibility(protocol_version, features) ==
    IF protocol_version = "unknown" THEN "uncertain"
    ELSE IF InVersionMap(protocol_version)
    THEN LET missing == Range(VersionEntry(protocol_version).features) \ Range(features)
         IN  IF missing = {} THEN "fully_compatible"
             ELSE IF Cardinality(missing) <= 1 THEN "mostly_compatible"
             ELSE "partially_compatible"
    ELSE "unknown_version"

\* detect_version / _create_version_info: the MCPVersionInfo dataclass.
DetectVersion(protocol_version, capabilities, methods) ==
    LET features == DetectFeatures(capabilities, methods)
        mapped == MapProtocolToSpec(protocol_version, features)
    IN  [detected |-> TRUE,
         protocol_version |-> protocol_version,
         specification_version |-> mapped.spec_version,
         detected_from |-> DetermineDetectionSource(protocol_version, capabilities),
         compatibility_status |-> AssessCompatibility(protocol_version, features),
         supported_features |-> features,
         version_confidence |-> mapped.confidence]

\* MCPClient._version_info = None.
NoVersionInfo ==
    [detected |-> FALSE, protocol_version |-> "", specification_version |-> "",
     detected_from |-> "", compatibility_status |-> "", supported_features |-> <<>>,
     version_confidence |-> 0]

\* f"{confidence:.1%}": the confidence in tenths of a percent, rounded to nearest
\* (c sixtieths are 50c/3 tenths of a percent, never halfway between two).
FormatPercent(c) ==
    LET tenths == (50 * c + 1) \div 3
    IN  ToString(tenths \div 10) \o "." \o ToString(tenths % 10) \o "%"

\* get_version_summary.
GetVersionSummary(version_info) ==
    [status |-> "detected",
     protocol_version |-> version_info.protocol_version,
     specification_version |-> version_info.specification_version,
     compatibility |-> version_info.compatibility_status,
     confidence |-> FormatPercent(version_info.version_confidence),
     detection_method |-> version_info.detected_from,
     supported_features |-> Len(version_info.supported_features),
     features |-> version_info.supported_features]

\* {"status": "not_detected"}: the summary when no version was detected.
NotDetectedSummary ==
    [status |-> "not_detected", protocol_version |-> "", specification_version |-> "",
     compatibility |-> "", confidence |-> "", detection_method |-> "",
     supported_features |-> 0, features |-> <<>>]

\* is_compatible_with_client.
IsCompatibleWithClient(version_info) ==
    \/ version_info.protocol_version = "2024-11-05"
    \/ {"json_rpc_2.0", "basic_tools"} \subseteq Range(version_info.supported_features)

(***************************************************************************)
(* Bounds of the model.                                                    *)
(***************************************************************************)
\* The number of client operations the callers start in one run.
MaxOps == 2

\* The number of times the clock is found in a later millisecond when a request
\* id is created (a timeout that elapses takes it further on its own).
MaxClock == 1

\* The number of times the child departs from answering a request with the
\* well-formed result: an error reply, a result of another shape, a message of
\* its own, its exit.
MaxFaults == 1

\* The asyncio tasks that call the client (discovery.py runs its list
\* operations and its tool calls as concurrent tasks on one client).
Tasks == {"t1", "t2"}

(***************************************************************************)
(* State.                                                                  *)
(***************************************************************************)
VARIABLES
    now,                  \* the millisecond int(time.time() * 1000) was last known to be in
    ticks,                \* the number of readings that found the clock in a later millisecond
    connected,            \* BaseTransport._connected
    closed,               \* BaseTransport._closed
    process,              \* STDIOTransport.process: "running" or "none" (None)
    reader,               \* STDIOTransport._read_task: "running", "done" or "cancelled"
    queue,                \* STDIOTransport._response_queue
    stdin,                \* the messages written to the child's input stream, in order
    childAlive,           \* the child process has not exited
    served,               \* the positions of stdin the child has answered
    faults,               \* the number of times the child departed from the protocol
    initialized,          \* MCPClient._initialized
    server_capabilities,  \* MCPClient._server_capabilities
    server_info,          \* MCPClient._server_info
    version_info,         \* MCPClient._version_info
    pc,                   \* per task: where it is suspended
    op,                   \* per task: the client operation it runs (or ran last)
    params,               \* per task: the params of the operation's request
    request_id,           \* per task: the id of the request its send_request transmitted
    response,             \* per task: the response its send_request returned
    outcome,              \* per task: what its last operation returned or raised
    sent,                 \* per task: the methods its operation has written, in order
    opsStarted,           \* the number of operations started
    history,              \* what has happened so far (a set of event names)
    handshake_result,     \* what the initialize_connection that set _initialized returned
    stdio,                \* a STDIOTransport: its _connected, _closed, process and _read_task
    http,                 \* a HTTPTransport: its _connected, _closed and session
    children,             \* the child processes spawned so far: "running" or "exited"
    read_tasks,           \* the reader tasks created so far: "running", "done" or "cancelled"
    sessions,             \* the aiohttp sessions created so far: "open" or "closed"
    last,                 \* the last call made on one of the two transports, and how it ended
    ncalls,               \* the number of calls made on the two transports
    repeated,             \* the calls that found their work already done, and the connects that failed
    pipe,                 \* the lines the child has written that readline has not returned yet
    eof,                  \* the child has closed its output stream
    read_task,            \* the task running _read_responses: "running" or "done"
    response_queue,       \* STDIOTransport._response_queue
    received,             \* what receive_message has returned, in order
    written,              \* every line the child has written, in order
    phase,                \* where discover_endpoint is: "idle", "listing", "exploring", "done"
    tool_tickle,          \* DiscoveryEngine.tool_tickle
    wire,                 \* the requests discovery's tasks have written, in order, with the server's answers
    waiting,              \* the tasks suspended in receive_message, in the order they began to wait
    inbox,                \* the messages on the transport's queue that no task was waiting for
    finished,             \* per task of discovery: what it returned
    safe_tools,           \* the tools explore_tools tickles (the names, in the catalog's order)
    misrouted,            \* a task has been handed the answer to another task's request
    deadline,             \* the tasks whose receive timeout has run out
    candidate,            \* the message last handed to validate_json_rpc_message
    verdict,              \* what that call did: "accepted" (it returned) or "ValidationError"
    detect_args,          \* the arguments of the last call of detect_version
    detected_version,     \* the MCPVersionInfo that call returned
    rpc,                  \* the call in progress on a connected transport, or the last one made
    rpc_pc,               \* where that call is suspended: "drain", "recv", "post"; "idle" when it has ended
    rpc_result,           \* what the last call that ended returned or raised
    channel,              \* what has been transmitted: lines written to the child's input, POST bodies
    queues,               \* the _response_queue of each of the two transports
    peer,                 \* the child process: "reading" its input, "stalled" (it has stopped reading), "exited"
    unread,               \* the lines written to the child's input that the child has not read
    exchanges,            \* the number of calls made
    peer_lines,           \* the number of lines the child has written
    engine_pc,            \* where the engine operation is: "validate", "execute"; "idle" when it has ended
    engine_call,          \* the engine operation in progress, or the last one made, and its argument
    lookup_reply,         \* what the transport gave the list request of its existence check
    lookup,               \* what the list operation of its existence check returned or raised
    listed,               \* the names the existence check read from the listed items
    warnings,             \* the exceptions the existence check logged as warnings
    engine_result,        \* what the last engine operation returned or raised
    engine_sent,          \* the methods of the requests the operation has issued, in order
    engine_initialized,   \* MCPClient._initialized of the engine's client
    engine_runs,          \* the number of engine operations started
    heap,                 \* the dict objects in memory, by address; a value is a literal or the address of another dict
    caps_addr,            \* MCPClient._server_capabilities: the address of the dict it refers to
    owner_initialized,    \* MCPClient._initialized of this client
    link,                 \* the flags _connected and _closed of the client's transport
    handles,              \* the addresses of the dicts the client's operations have returned to the caller
    copies,               \* the addresses of the dicts the server_capabilities property has returned
    captured,             \* the capability mapping as the handshake captured it
    owner_last,           \* the last operation on the client, or the caller's last assignment, and how it went
    owner_steps,          \* the number of operations made on the client
    mutations,            \* the number of assignments the caller has made into dicts it was handed
    auth_args,            \* get_auth_headers: the arguments and os.environ of the last call
    auth_headers,         \* get_auth_headers: the mapping it returned, as (name, value) pairs
    cli_args,             \* the argparse Namespace validate_arguments was last called on
    cli_verdict,          \* "accepted", or the message of the ValidationError validate_arguments raised
    cli_run,              \* what execute_command did with cli_args
    spawn,                \* _create_transport: the endpoint of the last call and what it started
    raw_record,           \* the verbosity DiscoveryEngine was created with and the record it processed last
    descriptor,           \* the ToolInfo, ResourceInfo or PromptInfo built from it
    shutdown              \* a command of the CLI on a process transport: where it is, its child, its steps

transportVars == <<connected, closed, process, reader>>

childVars == <<childAlive, served, faults>>

clientVars == <<initialized, server_capabilities, server_info, version_info>>

taskVars == <<pc, op, params, request_id, response, outcome, sent>>

\* The variables of the client session (Spec).
sessionVars == <<now, ticks, transportVars, queue, stdin, childVars, clientVars, taskVars,
                 opsStarted, history, handshake_result>>

\* The variables of the transports' life cycle (LifecycleSpec).
lifecycleVars == <<stdio, http, children, read_tasks, sessions, last, ncalls, repeated>>

\* The variables of the process transport's output stream (StreamSpec).
streamVars == <<pipe, eof, read_task, response_queue, received, written>>

\* The variables of a discovery pass (DiscoverySpec).
discoveryVars == <<phase, tool_tickle, wire, waiting, inbox, finished, safe_tools, misrouted,
                   deadline>>

\* The variables of the calls of the two pure functions (ValidationSpec, DetectionSpec).
functionVars == <<candidate, verdict, detect_args, detected_version>>

\* The variables of the calls made on a connected transport (ExchangeSpec).
exchangeVars == <<rpc, rpc_pc, rpc_result, channel, queues, peer, unread, exchanges, peer_lines>>

\* The variables of the Execution Engine's operations (EngineSpec).
engineVars == <<engine_pc, engine_call, lookup_reply, lookup, listed, warnings,
                engine_result, engine_sent, engine_initialized, engine_runs>>

\* The variables of the client's cached capabilities and of its close (OwnerSpec).
ownerVars == <<heap, caps_addr, owner_initialized, link, handles, copies, captured,
                owner_last, owner_steps, mutations>>

\* The variables of the authentication provider's call (AuthSpec).
authVars == <<auth_args, auth_headers>>

\* The variables of a command of the CLI (CliSpec).
cliVars == <<cli_args, cli_verdict, cli_run>>

\* The variables of the creation of a transport (SpawnSpec).
spawnVars == <<spawn>>

\* The variables of the projection of a listed record into a descriptor (DescriptorSpec).
descriptorVars == <<raw_record, descriptor>>

\* The variable of a command on a process transport and its shutdown.
shutdownVars == <<shutdown>>

vars == <<sessionVars, lifecycleVars, streamVars, discoveryVars, functionVars,
           exchangeVars, engineVars, ownerVars, authVars, cliVars, spawnVars,
           descriptorVars, shutdownVars>>

notSessionVars == <<lifecycleVars, streamVars, discoveryVars, functionVars, exchangeVars,
                     engineVars, ownerVars, authVars, cliVars, spawnVars, descriptorVars,
                     shutdownVars>>

notLifecycleVars == <<sessionVars, streamVars, discoveryVars, functionVars, exchangeVars,
                       engineVars, ownerVars, authVars, cliVars, spawnVars, descriptorVars,
                       shutdownVars>>

notStreamVars == <<sessionVars, lifecycleVars, discoveryVars, functionVars, exchangeVars,
                    engineVars, ownerVars, authVars, cliVars, spawnVars, descriptorVars,
                    shutdownVars>>

notDiscoveryVars == <<sessionVars, lifecycleVars, streamVars, functionVars, exchangeVars,
                       engineVars, ownerVars, authVars, cliVars, spawnVars, descriptorVars,
                       shutdownVars>>

notFunctionVars == <<sessionVars, lifecycleVars, streamVars, discoveryVars, exchangeVars,
                      engineVars, ownerVars, authVars, cliVars, spawnVars, descriptorVars,
                      shutdownVars>>

notExchangeVars == <<sessionVars, lifecycleVars, streamVars, discoveryVars, functionVars,
                      engineVars, ownerVars, authVars, cliVars, spawnVars, descriptorVars,
                      shutdownVars>>

notEngineVars == <<sessionVars, lifecycleVars, streamVars, discoveryVars, functionVars,
                    exchangeVars, ownerVars, authVars, cliVars, spawnVars, descriptorVars,
                    shutdownVars>>

notOwnerVars == <<sessionVars, lifecycleVars, streamVars, discoveryVars, functionVars,
                   exchangeVars, engineVars, authVars, cliVars, spawnVars, descriptorVars,
                   shutdownVars>>

notAuthVars == <<sessionVars, lifecycleVars, streamVars, discoveryVars, functionVars,
                  exchangeVars, engineVars, ownerVars, cliVars, spawnVars, descriptorVars,
                  shutdownVars>>

notCliVars == <<sessionVars, lifecycleVars, streamVars, discoveryVars, functionVars,
                 exchangeVars, engineVars, ownerVars, authVars, spawnVars, descriptorVars,
                 shutdownVars>>

notSpawnVars == <<sessionVars, lifecycleVars, streamVars, discoveryVars, functionVars,
                   exchangeVars, engineVars, ownerVars, authVars, cliVars, descriptorVars,
                   shutdownVars>>

notDescriptorVars == <<sessionVars, lifecycleVars, streamVars, discoveryVars, functionVars,
                        exchangeVars, engineVars, ownerVars, authVars, cliVars, spawnVars,
                        shutdownVars>>

notShutdownVars == <<sessionVars, lifecycleVars, streamVars, discoveryVars, functionVars,
                      exchangeVars, engineVars, ownerVars, authVars, cliVars, spawnVars,
                      descriptorVars>>

(***************************************************************************)
(* The client's operations and the messages they send.                     *)
(***************************************************************************)
ListOps == {"list_tools", "list_resources", "list_prompts"}

CallOps == {"call_tool", "read_resource", "get_prompt"}

RpcOps == ListOps \cup CallOps

\* The method of the request an operation sends.
Method(o) ==
    CASE o = "initialize_connection" -> "initialize"
      [] o = "list_tools" -> "tools/list"
      [] o = "list_resources" -> "resources/list"
      [] o = "list_prompts" -> "prompts/list"
      [] o = "call_tool" -> "tools/call"
      [] o = "read_resource" -> "resources/read"
      [] o = "get_prompt" -> "prompts/get"

\* The key of the array a list operation returns.
ListKey(o) ==
    CASE o = "list_tools" -> "tools"
      [] o = "list_resources" -> "resources"
      [] o = "list_prompts" -> "prompts"

\* The methods that the handshake must precede.
GuardedMethods == {Method(o) : o \in RpcOps}

\* init_params of initialize_connection.
InitParams ==
    JObj([protocolVersion |-> JStr("2024-11-05"),
          capabilities |-> JObj([experimental |-> JEmptyObj,
                                 sampling |-> JEmptyObj,
                                 roots |-> JObj([listChanged |-> JFalse])]),
          clientInfo |-> JObj([name |-> JStr("mcpeek"), version |-> JStr("1.0.0")])])

\* The names and arguments the callers pass.
ToolName == "list_files"

ResourceUri == "file:///a"

PromptName == "greet"

\* call_tool / get_prompt: {"name": name}, plus "arguments" when arguments is truthy
\* (a non-empty dict); read_resource: {"uri": uri}; the list operations: None.
OpParams(o, arguments) ==
    CASE o = "call_tool" ->
            IF Keys(arguments) # {}
            THEN JObj([name |-> JStr(ToolName), arguments |-> arguments])
            ELSE JObj([name |-> JStr(ToolName)])
      [] o = "get_prompt" ->
            IF Keys(arguments) # {}
            THEN JObj([name |-> JStr(PromptName), arguments |-> arguments])
            ELSE JObj([name |-> JStr(PromptName)])
      [] o = "read_resource" -> JObj([uri |-> JStr(ResourceUri)])
      [] o = "initialize_connection" -> InitParams
      [] OTHER -> JAbsent

\* The arguments the callers pass to call_tool and get_prompt.
CallArguments == {JEmptyObj}

\* send_request: the request message (params only when not None).
Request(method, p, id) ==
    LET base == JObj([jsonrpc |-> JStr("2.0"), method |-> JStr(method), id |-> id])
    IN  IF p = JAbsent THEN base ELSE With(base, "params", p)

\* send_notification: the notification message (no id field).
Notification(method) == JObj([jsonrpc |-> JStr("2.0"), method |-> JStr(method)])

MethodOf(m) == IF Has(m, "method") THEN StrOf(Get(m, "method")) ELSE ""

(***************************************************************************)
(* What an operation hands back to its caller.                             *)
(***************************************************************************)
NoOutcome == [kind |-> "none", exc |-> "", cause |-> "", stage |-> "", val |-> JAbsent]

\* return val, from the stage ("cached", "handshake", "request", "close").
Return(stage, val) ==
    [kind |-> "return", exc |-> "", cause |-> "", stage |-> stage, val |-> val]

\* raise exc, caused by cause, from the stage.
Raise(stage, exc, cause) ==
    [kind |-> "raise", exc |-> exc, cause |-> cause, stage |-> stage, val |-> JAbsent]

(***************************************************************************)
(* transports/stdio.py                                                     *)
(***************************************************************************)
\* send_request: "if not self.process or not self._connected: raise ConnectionError".
TransportUp == process = "running" /\ connected

\* BaseTransport.is_connected, the guard of send_notification.
IsConnected == connected /\ ~closed

\* send_message: the write and the drain succeed while the child holds its end of
\* the pipe; every failure is raised as ConnectionError.
CanWrite == process = "running" /\ connected /\ childAlive

\* What send_request does with the message receive_message took from the queue:
\* the exception it raises, or "" when it returns the message to its caller.
\* receive_message validates it; send_request then looks for an error field.
SendRequestRaises(msg) ==
    IF ~ValidateJsonRpcMessage(msg) THEN "ValidationError"
    ELSE IF Has(msg, "error") THEN "transport.ProtocolError"
    ELSE ""

(***************************************************************************)
(* mcp_client.py                                                           *)
(***************************************************************************)
\* An operation that never performs the handshake.
NeedsInitialize_Never(flag) == FALSE

\* "if not self._initialized: await self.initialize_connection()".
NeedsInitialize(flag) == ~flag

\* initialize_connection: "except Exception as e: raise ConnectionError(...)".
InitError(cause) == "ConnectionError"

\* list_*, call_tool, read_resource, get_prompt:
\* "except Exception as e: raise ProtocolError(...)".
RequestError(cause) == "ProtocolError"

\* A handshake that sets _initialized before it sends the notification.
InitializedBeforeNotify_Set(flag) == TRUE

\* initialize_connection sets _initialized after the await of send_notification:
\* the flag as it is while the notification is being written.
InitializedBeforeNotify(flag) == flag

\* initialize_connection, from the response to the version detection: the new
\* _server_capabilities, _server_info and _version_info, and the exception raised
\* (fail), "" when none is.  The assignments made before a raise are kept.
ProcessInitialize(msg, cur_caps, cur_info, cur_vinfo) ==
    IF ~Has(msg, "result")
    THEN [fail |-> "ProtocolError", caps |-> cur_caps, info |-> cur_info, vinfo |-> cur_vinfo]
    ELSE LET result == Get(msg, "result")
         IN  IF ~IsDict(result)
             THEN [fail |-> "AttributeError", caps |-> cur_caps, info |-> cur_info,
                   vinfo |-> cur_vinfo]
             ELSE LET caps == GetOr(result, "capabilities", JEmptyObj)
                      info == GetOr(result, "serverInfo", JEmptyObj)
                      pv == StrOf(GetOr(result, "protocolVersion", JStr("2024-11-05")))
                  IN  IF ~IsDict(info) \/ ~IsDict(caps)
                      THEN [fail |-> "AttributeError", caps |-> caps, info |-> info,
                            vinfo |-> cur_vinfo]
                      ELSE [fail |-> "", caps |-> caps, info |-> info,
                            vinfo |-> DetectVersion(pv, caps, {})]

\* list_tools / list_resources / list_prompts, after send_request returned.
ListOutcome(key, resp) ==
    IF ~IsDict(resp) \/ resp = JEmptyObj THEN Return("request", JEmptyList)
    ELSE IF ~Has(resp, "result") THEN Return("request", JEmptyList)
    ELSE LET result == Get(resp, "result")
         IN  IF ~IsDict(result) THEN Return("request", JEmptyList)
             ELSE LET items == GetOr(result, key, JEmptyList)
                  IN  IF HasLen(items) THEN Return("request", items)
                      ELSE Raise("request", RequestError("TypeError"), "TypeError")

\* An operation that answers a response without result with an empty result.
CallOutcome_Default(resp) ==
    IF ~Has(resp, "result")
    THEN Return("request", JEmptyObj)
    ELSE Return("request", Get(resp, "result"))

\* call_tool / read_resource / get_prompt, after send_request returned.
CallOutcome(resp) ==
    IF ~Has(resp, "result")
    THEN Raise("request", RequestError("ProtocolError"), "ProtocolError")
    ELSE Return("request", Get(resp, "result"))

OpOutcome(o, resp) == IF o \in ListOps THEN ListOutcome(ListKey(o), resp) ELSE CallOutcome(resp)

\* get_server_version_summary.
GetServerVersionSummary ==
    IF ~version_info.detected THEN NotDetectedSummary ELSE GetVersionSummary(version_info)

\* is_server_compatible.
IsServerCompatible ==
    IF ~version_info.detected THEN FALSE ELSE IsCompatibleWithClient(version_info)

(***************************************************************************)
(* Initial state: the transport is connected (cli.py connects it before it *)
(* builds the client) and the client is fresh.                             *)
(***************************************************************************)
(* discovery.py: the tasks of a discovery pass and what they return.       *)
(***************************************************************************)
\* The tools a server lists in one answer, at most.
MaxTools == 2

\* The three catalog tasks, in the order discover_endpoint creates them.
Categories == <<"tools", "resources", "prompts">>

\* The task explore_tools creates for the i-th safe tool.
TickleTask(i) == "tickle" \o ToString(i)

DiscoveryTasks == Range(Categories) \cup {TickleTask(i) : i \in 1..MaxTools}

\* The task has not returned.
Pending == [kind |-> "pending"]

\* catalog_tools / catalog_resources / catalog_prompts returned the list
\* (of the tools' names, the resources' uris, the prompts' names).
Cataloged(names) == [kind |-> "catalog", names |-> names]

\* _explore_single_tool returned {"status": status, "result": result, ...}.
Explored(status, result) == [kind |-> "tickle", status |-> status, result |-> result]

(***************************************************************************)
(* A call on a transport, as its caller sees it: which method of which     *)
(* transport, the exception it raised ("none": it returned), whether it    *)
(* wrote to the channel (the child's input stream, a POST), whether it      *)
(* created a child process or a session, and the transport's _connected    *)
(* and _closed flags when the call was made.                               *)
(***************************************************************************)
Call(name, on, raised, wrote, created, tr) ==
    [call |-> name, on |-> on, raised |-> raised, wrote |-> wrote, created |-> created,
     connected |-> tr.connected, closed |-> tr.closed]

NoCall == Call("none", "none", "none", FALSE, FALSE, [connected |-> FALSE, closed |-> FALSE])

\* detect_version has not been called.
NoDetection ==
    [called |-> FALSE, server_info |-> JAbsent, server_capabilities |-> JAbsent,
     available_methods |-> [supplied |-> FALSE, list |-> <<>>]]

(***************************************************************************)
(* A call on a connected transport and how it ended.                       *)
(***************************************************************************)
Transports == {"stdio", "http"}

\* The call, the transport it is made on, the message it sends (the argument of
\* send_message, the request send_request builds), and the number of
\* transmissions made before it.
Rpc(name, on, message, before) ==
    [call |-> name, on |-> on, message |-> message, before |-> before]

NoRpc == Rpc("none", "none", JAbsent, 0)

\* What the peer sent that a call was given: the HTTP status (0 on the process
\* transport), the kind of text ("json", "garbage", "empty"; "none": nothing) and
\* the parsed document.
Reply(status, text, doc) == [status |-> status, text |-> text, doc |-> doc]

NoReply == Reply(0, "none", JAbsent)

\* What an exception's text carries: the code and message of an error object, the
\* HTTP status and the body text.
Detail(code, message, status, body) ==
    [code |-> code, message |-> message, status |-> status, body |-> body]

NoDetail == Detail(JAbsent, JAbsent, 0, "")

RpcReturn(val, reply) ==
    [kind |-> "return", exc |-> "", cause |-> "", detail |-> NoDetail, val |-> val,
     reply |-> reply]

RpcRaise(exc, cause, detail, reply) ==
    [kind |-> "raise", exc |-> exc, cause |-> cause, detail |-> detail, val |-> JAbsent,
     reply |-> reply]

NoRpcResult ==
    [kind |-> "none", exc |-> "", cause |-> "", detail |-> NoDetail, val |-> JAbsent,
     reply |-> NoReply]

(***************************************************************************)
(* An operation of the Execution Engine and how it ended.                  *)
(***************************************************************************)
\* The engine operation and the name (tool name, resource uri, prompt name) it
\* is called with.
EngineCallOf(o, name) == [op |-> o, name |-> name]

NoEngineCall == EngineCallOf("none", "")

\* What an engine operation hands back: as for a client operation, and the
\* alternatives the text of its ValidationError names.
EngineOutcome(out, available) ==
    [kind |-> out.kind, exc |-> out.exc, cause |-> out.cause, stage |-> out.stage,
     val |-> out.val, available |-> available]

NoEngineOutcome == EngineOutcome(NoOutcome, <<>>)

\* What the transport's send_request does: it raises (TimeoutError: no reply in
\* time; ConnectionError: the write failed), or it has a message from the queue.
TransportRaises(exc) == [raised |-> exc, msg |-> JAbsent]

TransportHas(msg) == [raised |-> "", msg |-> msg]

\* No request was made.
NoTransportReply == [raised |-> "none", msg |-> JAbsent]

(***************************************************************************)
(* Dicts in memory.  A dict is a function from its keys to values; a value *)
(* is a literal or a reference to (the address of) another dict, so that   *)
(* two names for one dict see each other's assignments.                    *)
(***************************************************************************)
Lit(s) == [ref |-> 0, lit |-> s]

Ref(a) == [ref |-> a, lit |-> ""]

\* {}
EmptyDict == [k \in {} |-> Lit("")]

\* MCPClient.__init__: self._client_capabilities.
ClientCapabilities ==
    [k \in {"experimental", "sampling", "roots"} |-> Lit(IF k = "roots" THEN "listChanged" ELSE "{}")]

\* What the handshake captured: nothing yet, or the mapping (by value).
NothingCaptured == [set |-> FALSE, value |-> EmptyDict]

Captured(value) == [set |-> TRUE, value |-> value]

\* An operation on the client (or an assignment of the caller's): its name, the
\* dict it returned or assigned into (0: none), the exception it raised, and for
\* close what it did: _initialized and is_connected when it began, the goodbye
\* notification ("none": not attempted, "sent", "failed") and transport.close
\* ("returned", "raised"; "none": not called).
OwnerStep(name, target, raised, was, goodbye, transport_close) ==
    [call |-> name, target |-> target, raised |-> raised, was |-> was, goodbye |-> goodbye,
     transport_close |-> transport_close]

NotClosing == [initialized |-> FALSE, connected |-> FALSE]

NoOwnerStep == OwnerStep("none", 0, "", NotClosing, "none", "none")

(***************************************************************************)
(* Optional strings (None or a str), and the call of the authentication    *)
(* provider.                                                               *)
(***************************************************************************)
None == [some |-> FALSE, str |-> ""]

Some(s) == [some |-> TRUE, str |-> s]

\* Python's truth value of an Optional[str]: None and "" are false.
Truthy(v) == v.some /\ v.str # ""

\* No call of get_auth_headers yet.
NoAuthCall ==
    [called |-> FALSE, endpoint |-> "", api_key |-> None, auth_header |-> None,
     environ |-> [n \in {} |-> ""]]

(***************************************************************************)
(* Python values of several types in one dict (an argparse Namespace, a    *)
(* configuration): None, a bool, a str or an int.                          *)
(***************************************************************************)
PyNone == [t |-> "none", b |-> FALSE, s |-> "", n |-> 0]

PyBool(b) == [t |-> "bool", b |-> b, s |-> "", n |-> 0]

PyStr(s) == [t |-> "str", b |-> FALSE, s |-> s, n |-> 0]

PyInt(n) == [t |-> "int", b |-> FALSE, s |-> "", n |-> n]

\* {} with values of these types.
NoAttributes == [k \in {} |-> PyNone]

\* What execute_command did: the configuration it loaded, whether the transport
\* connected, the engine operation it invoked ("none": none), the exception that
\* ended it ("": none), whether client.close() was awaited, and its return value.
CommandRun(config, transport_connected, invoked, raised, client_closed, exit) ==
    [ran |-> TRUE, config |-> config, connected |-> transport_connected, invoked |-> invoked,
     raised |-> raised, closed |-> client_closed, exit |-> exit]

NoCommandRun ==
    [ran |-> FALSE, config |-> NoAttributes, connected |-> FALSE, invoked |-> "none",
     raised |-> "", closed |-> FALSE, exit |-> 0]

\* What _create_transport did for an endpoint: the exception it raised ("":
\* none) and the argument list of the process it started (<<>>: none).
NoSpawn == [called |-> FALSE, endpoint |-> "", raised |-> "", spawned |-> <<>>]

\* ToolInfo, ResourceInfo and PromptInfo (formatters/base.py) in one record: the
\* fields a class does not have are absent.
Descriptor(kind, name, uri, description, mime_type, parameters, schema, metadata) ==
    [kind |-> kind, name |-> name, uri |-> uri, description |-> description,
     mime_type |-> mime_type, parameters |-> parameters, schema |-> schema,
     metadata |-> metadata]

NoDescriptor ==
    Descriptor("none", JAbsent, JAbsent, JAbsent, JAbsent, JAbsent, JAbsent, JAbsent)

\* No record has been processed yet.
NoRawRecord == [called |-> FALSE, kind |-> "none", verbosity |-> 0, data |-> JAbsent]

\* A command of the CLI before its transport is connected: nothing started,
\* nothing closed, no step of the shutdown taken.
NoShutdown ==
    [pc |-> "start", ending |-> "none", exit |-> -1, initialized |-> FALSE,
     connected |-> FALSE, closed |-> FALSE, process |-> FALSE, read_task |-> "none",
     child |-> "none", steps |-> <<>>, stdin_raised |-> FALSE,
     lookup_error |-> FALSE, grace_expired |-> FALSE]

(***************************************************************************)
Init ==
    /\ now = 0
    /\ ticks = 0
    /\ connected = TRUE
    /\ closed = FALSE
    /\ process = "running"
    /\ reader = "running"
    /\ queue = <<>>
    /\ stdin = <<>>
    /\ childAlive = TRUE
    /\ served = {}
    /\ faults = 0
    /\ initialized = FALSE
    /\ server_capabilities = JEmptyObj
    /\ server_info = JEmptyObj
    /\ version_info = NoVersionInfo
    /\ pc = [t \in Tasks |-> "idle"]
    /\ op = [t \in Tasks |-> "none"]
    /\ params = [t \in Tasks |-> JAbsent]
    /\ request_id = [t \in Tasks |-> JAbsent]
    /\ response = [t \in Tasks |-> JAbsent]
    /\ outcome = [t \in Tasks |-> NoOutcome]
    /\ sent = [t \in Tasks |-> <<>>]
    /\ opsStarted = 0
    /\ history = {}
    /\ handshake_result = JAbsent
    /\ stdio = [connected |-> FALSE, closed |-> FALSE, process |-> 0, read_task |-> 0]
    /\ http = [connected |-> FALSE, closed |-> FALSE, session |-> 0]
    /\ children = <<>>
    /\ read_tasks = <<>>
    /\ sessions = <<>>
    /\ last = NoCall
    /\ ncalls = 0
    /\ repeated = {}
    /\ pipe = <<>>
    /\ eof = FALSE
    /\ read_task = "running"
    /\ response_queue = <<>>
    /\ received = <<>>
    /\ written = <<>>
    /\ phase = "idle"
    /\ tool_tickle = FALSE
    /\ wire = <<>>
    /\ waiting = <<>>
    /\ inbox = <<>>
    /\ finished = [t \in DiscoveryTasks |-> Pending]
    /\ safe_tools = <<>>
    /\ misrouted = FALSE
    /\ deadline = {}
    /\ candidate = JAbsent
    /\ verdict = "none"
    /\ detect_args = NoDetection
    /\ detected_version = NoVersionInfo
    /\ rpc = NoRpc
    /\ rpc_pc = "idle"
    /\ rpc_result = NoRpcResult
    /\ channel = <<>>
    /\ queues = [on \in Transports |-> <<>>]
    /\ peer = "reading"
    /\ unread = 0
    /\ exchanges = 0
    /\ peer_lines = 0
    /\ engine_pc = "idle"
    /\ engine_call = NoEngineCall
    /\ lookup_reply = NoTransportReply
    /\ lookup = NoOutcome
    /\ listed = <<>>
    /\ warnings = <<>>
    /\ engine_result = NoEngineOutcome
    /\ engine_sent = <<>>
    /\ engine_initialized = FALSE
    /\ engine_runs = 0
    /\ heap = <<ClientCapabilities, EmptyDict>>
    /\ caps_addr = 2
    /\ owner_initialized = FALSE
    /\ link = [connected |-> TRUE, closed |-> FALSE]
    /\ handles = {}
    /\ copies = {}
    /\ captured = NothingCaptured
    /\ owner_last = NoOwnerStep
    /\ owner_steps = 0
    /\ mutations = 0
    /\ auth_args = NoAuthCall
    /\ auth_headers = {}
    /\ cli_args = NoAttributes
    /\ cli_verdict = "none"
    /\ cli_run = NoCommandRun
    /\ spawn = NoSpawn
    /\ raw_record = NoRawRecord
    /\ descriptor = NoDescriptor
    /\ shutdown = NoShutdown

\* The values int(time.time() * 1000) can have when it is read next: the
\* millisecond the clock was last known to be in, or a later one.  Time is
\* counted from the first reading; only whether two readings are equal matters,
\* so a later reading is the next number.
ClockReadings == {now} \cup (IF stdin # <<>> /\ ticks < MaxClock THEN {now + 1} ELSE {})

(***************************************************************************)
(* send_request up to its suspension in receive_message: the id is created *)
(* from the clock (which has or has not moved on to the next millisecond   *)
(* since it was last read), the message is written, and the task waits at  *)
(* recvPc.  When the transport is not up or the write fails, the operation *)
(* ends with failed.  before holds the methods the operation has written   *)
(* already.                                                                *)
(***************************************************************************)
SendRequest(t, method, p, recvPc, failed, before) ==
    IF TransportUp /\ CanWrite
    THEN \E ms \in ClockReadings :
            /\ now' = ms
            /\ ticks' = IF ms = now THEN ticks ELSE ticks + 1
            /\ request_id' = [request_id EXCEPT ![t] = CreateRequestId(ms)]
            /\ stdin' = Append(stdin, Request(method, p, CreateRequestId(ms)))
            /\ pc' = [pc EXCEPT ![t] = recvPc]
            /\ response' = [response EXCEPT ![t] = JAbsent]
            /\ outcome' = [outcome EXCEPT ![t] = NoOutcome]
            /\ sent' = [sent EXCEPT ![t] = Append(before, method)]
    ELSE /\ pc' = [pc EXCEPT ![t] = "idle"]
         /\ response' = [response EXCEPT ![t] = JAbsent]
         /\ outcome' = [outcome EXCEPT ![t] = failed]
         /\ sent' = [sent EXCEPT ![t] = before]
         /\ UNCHANGED <<now, ticks, request_id, stdin>>

HandshakeFailed(cause) == Raise("handshake", InitError(cause), cause)

RequestFailed(cause) == Raise("request", RequestError(cause), cause)

\* The operations the program runs concurrently on one client: discovery.py
\* gathers the three list operations, and then the call_tool of every tool it
\* tickles.  Every other operation is awaited by the caller before the next.
Concurrent(o1, o2) ==
    \/ o1 \in ListOps /\ o2 \in ListOps /\ o1 # o2
    \/ o1 = "call_tool" /\ o2 = "call_tool"

\* A caller may start operation o in task t: in t1 when no operation is in
\* progress, in t2 beside an operation of t1 that runs concurrently with o.
MayStart(t, o) ==
    /\ opsStarted < MaxOps
    /\ \A u \in Tasks : u # "t1" => pc[u] = "idle"
    /\ \/ t = "t1" /\ pc["t1"] = "idle"
       \/ t # "t1" /\ pc["t1"] # "idle" /\ Concurrent(op["t1"], o)

\* initialize_connection called by a caller.
InitializeConnection(t) ==
    /\ MayStart(t, "initialize_connection")
    /\ opsStarted' = opsStarted + 1
    /\ op' = [op EXCEPT ![t] = "initialize_connection"]
    /\ params' = [params EXCEPT ![t] = InitParams]
    /\ IF initialized
       THEN /\ outcome' = [outcome EXCEPT ![t] = Return("cached", server_capabilities)]
            /\ response' = [response EXCEPT ![t] = JAbsent]
            /\ sent' = [sent EXCEPT ![t] = <<>>]
            /\ UNCHANGED <<now, ticks, request_id, stdin, pc>>
       ELSE SendRequest(t, "initialize", InitParams, "hs_recv",
                        HandshakeFailed("transport.ConnectionError"), <<>>)
    /\ UNCHANGED notSessionVars
    /\ UNCHANGED <<transportVars, queue, childVars, clientVars, history, handshake_result>>

\* Some task is inside initialize_connection, suspended in one of its awaits.
HandshakeInProgress == \E u \in Tasks : pc[u] \in {"hs_recv", "hs_drain"}

\* list_tools, list_resources, list_prompts, call_tool, read_resource, get_prompt
\* called by a caller: the handshake first when the client is not initialized.
\* The history notes a handshake begun while another is in progress.
RpcOperation(t, o, arguments) ==
    /\ MayStart(t, o)
    /\ opsStarted' = opsStarted + 1
    /\ op' = [op EXCEPT ![t] = o]
    /\ params' = [params EXCEPT ![t] = OpParams(o, arguments)]
    /\ IF NeedsInitialize(initialized)
       THEN SendRequest(t, "initialize", InitParams, "hs_recv",
                        HandshakeFailed("transport.ConnectionError"), <<>>)
       ELSE SendRequest(t, Method(o), OpParams(o, arguments), "rq_recv",
                        RequestFailed("transport.ConnectionError"), <<>>)
    /\ history' = history \cup
          (IF NeedsInitialize(initialized) /\ HandshakeInProgress
           THEN {"handshakes_overlap"} ELSE {})
    /\ UNCHANGED notSessionVars
    /\ UNCHANGED <<transportVars, queue, childVars, clientVars, handshake_result>>

\* initialize_connection resumes with the message receive_message took from the
\* queue: the response is checked, the capabilities are cached, the version is
\* detected and the initialized notification is written; the task then waits
\* for the drain of that write.
HandshakeResponse(t) ==
    /\ pc[t] = "hs_recv"
    /\ queue # <<>>
    /\ queue' = Tail(queue)
    /\ LET msg == Head(queue)
           raised == SendRequestRaises(msg)
           r == ProcessInitialize(msg, server_capabilities, server_info, version_info)
       IN  IF raised # ""
           THEN /\ pc' = [pc EXCEPT ![t] = "idle"]
                /\ outcome' = [outcome EXCEPT ![t] = HandshakeFailed(raised)]
                /\ UNCHANGED <<response, clientVars, stdin, history, sent>>
           ELSE /\ response' = [response EXCEPT ![t] = msg]
                /\ server_capabilities' = r.caps
                /\ server_info' = r.info
                /\ version_info' = r.vinfo
                /\ IF r.fail # ""
                   THEN /\ pc' = [pc EXCEPT ![t] = "idle"]
                        /\ outcome' = [outcome EXCEPT ![t] = HandshakeFailed(r.fail)]
                        /\ UNCHANGED <<initialized, stdin, history, sent>>
                   ELSE /\ history' = history \cup {"init_result"}
                        /\ initialized' = InitializedBeforeNotify(initialized)
                        /\ IF IsConnected /\ CanWrite
                           THEN /\ stdin' = Append(stdin, Notification("notifications/initialized"))
                                /\ sent' = [sent EXCEPT ![t] =
                                      Append(sent[t], "notifications/initialized")]
                                /\ pc' = [pc EXCEPT ![t] = "hs_drain"]
                                /\ UNCHANGED outcome
                           ELSE /\ pc' = [pc EXCEPT ![t] = "idle"]
                                /\ outcome' = [outcome EXCEPT ![t] =
                                      HandshakeFailed(IF IsConnected
                                                      THEN "transport.ConnectionError"
                                                      ELSE "RuntimeError")]
                                /\ UNCHANGED <<stdin, sent>>
    /\ UNCHANGED notSessionVars
    /\ UNCHANGED <<now, ticks, transportVars, childVars, op, params, request_id, opsStarted,
                   handshake_result>>

\* initialize_connection resumes after the notification was sent: the client is
\* marked initialized; initialize_connection returns the result, and an operation
\* that called it goes on to send its own request.
HandshakeComplete(t) ==
    /\ pc[t] = "hs_drain"
    /\ initialized' = TRUE
    /\ history' = history \cup {"initialize_ok"}
    /\ handshake_result' = Get(response[t], "result")
    /\ IF op[t] = "initialize_connection"
       THEN /\ pc' = [pc EXCEPT ![t] = "idle"]
            /\ outcome' = [outcome EXCEPT ![t] = Return("handshake", Get(response[t], "result"))]
            /\ UNCHANGED <<now, ticks, request_id, stdin, response, sent>>
       ELSE SendRequest(t, Method(op[t]), params[t], "rq_recv",
                        RequestFailed("transport.ConnectionError"), sent[t])
    /\ UNCHANGED notSessionVars
    /\ UNCHANGED <<transportVars, queue, childVars, server_capabilities, server_info,
                   version_info, op, params, opsStarted>>

\* A list or call operation resumes with the message receive_message took from
\* the queue.
RequestResponse(t) ==
    /\ pc[t] = "rq_recv"
    /\ queue # <<>>
    /\ queue' = Tail(queue)
    /\ pc' = [pc EXCEPT ![t] = "idle"]
    /\ LET msg == Head(queue)
           raised == SendRequestRaises(msg)
       IN  IF raised # ""
           THEN /\ outcome' = [outcome EXCEPT ![t] = RequestFailed(raised)]
                /\ UNCHANGED response
           ELSE /\ response' = [response EXCEPT ![t] = msg]
                /\ outcome' = [outcome EXCEPT ![t] = OpOutcome(op[t], msg)]
    /\ UNCHANGED notSessionVars
    /\ UNCHANGED <<now, ticks, transportVars, stdin, childVars, clientVars, op, params,
                   request_id, sent, opsStarted, history, handshake_result>>

\* receive_message: no message came within the timeout; TimeoutError is raised.
\* The timeout has taken the clock to a later millisecond.
ReceiveTimeout(t) ==
    /\ pc[t] \in {"hs_recv", "rq_recv"}
    /\ queue = <<>>
    /\ now' = now + 1
    /\ pc' = [pc EXCEPT ![t] = "idle"]
    /\ outcome' = [outcome EXCEPT ![t] =
          IF pc[t] = "hs_recv" THEN HandshakeFailed("transport.TimeoutError")
          ELSE RequestFailed("transport.TimeoutError")]
    /\ UNCHANGED notSessionVars
    /\ UNCHANGED <<ticks, transportVars, queue, stdin, childVars, clientVars, op, params,
                   request_id, response, sent, opsStarted, history, handshake_result>>

\* MCPClient.close up to the first await of STDIOTransport._cleanup: the goodbye
\* notification when initialized and connected (a failure is ignored), then
\* transport.close, which returns at once when the transport is already closed.
Close(t) ==
    /\ MayStart(t, "close")
    /\ opsStarted' = opsStarted + 1
    /\ op' = [op EXCEPT ![t] = "close"]
    /\ params' = [params EXCEPT ![t] = JAbsent]
    /\ response' = [response EXCEPT ![t] = JAbsent]
    /\ stdin' = IF initialized /\ IsConnected /\ CanWrite
                THEN Append(stdin, Notification("goodbye")) ELSE stdin
    /\ sent' = [sent EXCEPT ![t] = IF initialized /\ IsConnected /\ CanWrite
                                   THEN <<"goodbye">> ELSE <<>>]
    /\ IF closed
       THEN /\ initialized' = FALSE
            /\ outcome' = [outcome EXCEPT ![t] = Return("close", JNull)]
            /\ UNCHANGED <<pc, connected, closed>>
       ELSE /\ connected' = FALSE
            /\ closed' = TRUE
            /\ pc' = [pc EXCEPT ![t] = "cl_cleanup"]
            /\ outcome' = [outcome EXCEPT ![t] = NoOutcome]
            /\ UNCHANGED initialized
    /\ UNCHANGED notSessionVars
    /\ UNCHANGED <<now, ticks, process, reader, queue, childVars, server_capabilities,
                   server_info, version_info, request_id, history, handshake_result>>

\* _cleanup has cancelled the reader and terminated the child; transport.close
\* returns and MCPClient.close resets _initialized.
CloseCleanup(t) ==
    /\ pc[t] = "cl_cleanup"
    /\ reader' = IF reader = "running" THEN "cancelled" ELSE reader
    /\ process' = "none"
    /\ childAlive' = FALSE
    /\ initialized' = FALSE
    /\ pc' = [pc EXCEPT ![t] = "idle"]
    /\ outcome' = [outcome EXCEPT ![t] = Return("close", JNull)]
    /\ UNCHANGED notSessionVars
    /\ UNCHANGED <<now, ticks, connected, closed, queue, stdin, served, faults,
                   server_capabilities, server_info, version_info, op, params, request_id,
                   response, sent, opsStarted, history, handshake_result>>

(***************************************************************************)
(* The child process (the MCP server) and the reader task.                 *)
(***************************************************************************)
\* safe_json_dumps then the newline: one line of JSON text.
JsonLine(doc) == [json |-> TRUE, doc |-> doc]

\* A line that is no JSON text.
GarbageLine == [json |-> FALSE, doc |-> JAbsent]

InitResultFull ==
    JObj([protocolVersion |-> JStr("2024-11-05"),
          capabilities |-> JObj([tools |-> JEmptyObj]),
          serverInfo |-> JObj([name |-> JStr("stub"), version |-> JStr("0.1")])])

ListItem(key) ==
    CASE key = "tools" -> JObj([name |-> JStr(ToolName)])
      [] key = "resources" -> JObj([uri |-> JStr(ResourceUri)])
      [] key = "prompts" -> JObj([name |-> JStr(PromptName)])

\* The well-formed result of a request of the method.
GoodResult(method) ==
    CASE method = "initialize" -> InitResultFull
      [] method = "tools/list" -> JObj([tools |-> JList(<<ListItem("tools")>>)])
      [] method = "resources/list" -> JObj([resources |-> JList(<<ListItem("resources")>>)])
      [] method = "prompts/list" -> JObj([prompts |-> JList(<<ListItem("prompts")>>)])
      [] OTHER -> JObj([content |-> JEmptyList])

\* The results of another shape a server answers a request of the method with.
OddResults(method) ==
    CASE method = "initialize" -> {JEmptyObj}
      [] method \in {"tools/list", "resources/list", "prompts/list"} ->
            LET key == CHOOSE k \in {"tools", "resources", "prompts"} : method = k \o "/list"
            IN  {JEmptyObj, JObj(key :> JNull), JObj(key :> JStr("none")), JNull}
      [] OTHER -> {}

ErrorObject == JObj([code |-> JNum(-32601), message |-> JStr("Method not found")])

ResultResponse(id, result) == JObj([jsonrpc |-> JStr("2.0"), id |-> id, result |-> result])

ErrorResponse(id) == JObj([jsonrpc |-> JStr("2.0"), id |-> id, error |-> ErrorObject])

\* _read_responses, one turn of the loop, for a line the child has written: the
\* queue after it.  A line of JSON is parsed and put on the queue; any other line
\* is logged and dropped.
ReadLine(q, line) == IF line.json THEN Append(q, line.doc) ELSE q

\* The child writes a line.  The reader task, suspended in readline, takes it up
\* (a line is invisible to the client until the reader has put it on the queue,
\* so the write and the reader's turn are one step); the reader then leaves its
\* loop when the transport is no longer connected.  With no reader the line
\* stays in the pipe.
ChildWrites(line) ==
    /\ queue' = IF reader = "running" THEN ReadLine(queue, line) ELSE queue
    /\ reader' = IF reader = "running" /\ ~(connected /\ ~closed) THEN "done" ELSE reader

\* The child answers a request it has read, at any time after it was sent and in
\* any order: with the well-formed result, or (a fault) with a result of another
\* shape or with an error.
ServerReply(i) ==
    /\ childAlive
    /\ i \in DOMAIN stdin
    /\ i \notin served
    /\ Has(stdin[i], "id")
    /\ served' = served \cup {i}
    /\ \/ /\ ChildWrites(JsonLine(ResultResponse(Get(stdin[i], "id"),
                                                 GoodResult(MethodOf(stdin[i])))))
          /\ UNCHANGED faults
       \/ /\ faults < MaxFaults
          /\ faults' = faults + 1
          /\ \E line \in {JsonLine(ResultResponse(Get(stdin[i], "id"), b)) :
                              b \in OddResults(MethodOf(stdin[i]))}
                         \cup {JsonLine(ErrorResponse(Get(stdin[i], "id")))} :
                ChildWrites(line)
    /\ UNCHANGED notSessionVars
    /\ UNCHANGED <<now, ticks, connected, closed, process, stdin, childAlive,
                   clientVars, taskVars, opsStarted, history, handshake_result>>

\* The child writes a message that answers nothing: a notification of its own.
ServerUnsolicited ==
    /\ childAlive
    /\ faults < MaxFaults
    /\ faults' = faults + 1
    /\ ChildWrites(JsonLine(Notification("notifications/message")))
    /\ UNCHANGED notSessionVars
    /\ UNCHANGED <<now, ticks, connected, closed, process, stdin, childAlive, served,
                   clientVars, taskVars, opsStarted, history, handshake_result>>

\* The child writes a line that is not JSON text.
ServerGarbage ==
    /\ childAlive
    /\ ChildWrites(GarbageLine)
    /\ UNCHANGED notSessionVars
    /\ UNCHANGED <<now, ticks, connected, closed, process, stdin, childVars, clientVars,
                   taskVars, opsStarted, history, handshake_result>>

\* The child exits; the reader reads end of file and ends.
ServerExit ==
    /\ childAlive
    /\ faults < MaxFaults
    /\ faults' = faults + 1
    /\ childAlive' = FALSE
    /\ reader' = IF reader = "running" THEN "done" ELSE reader
    /\ UNCHANGED notSessionVars
    /\ UNCHANGED <<now, ticks, connected, closed, process, queue, stdin, served,
                   clientVars, taskVars, opsStarted, history, handshake_result>>

Next ==
    \/ \E t \in Tasks : InitializeConnection(t)
    \/ \E t \in Tasks, o \in RpcOps, a \in CallArguments : RpcOperation(t, o, a)
    \/ \E t \in Tasks : HandshakeResponse(t)
    \/ \E t \in Tasks : HandshakeComplete(t)
    \/ \E t \in Tasks : RequestResponse(t)
    \/ \E t \in Tasks : ReceiveTimeout(t)
    \/ \E t \in Tasks : Close(t)
    \/ \E t \in Tasks : CloseCleanup(t)
    \/ \E i \in 1..(3 * MaxOps) : ServerReply(i)
    \/ ServerUnsolicited
    \/ ServerGarbage
    \/ ServerExit

Spec == Init /\ [][Next]_vars

(***************************************************************************)
(* The life cycle of the two transports: connect, close and the three send *)
(* methods, called one after another by one task, with the child process   *)
(* and the reader task running beside them.                                *)
(***************************************************************************)

\* The calls made on the two transports in one run.
MaxCalls == 8

SendMethods == {"send_message", "send_request", "send_notification"}

\* "if self._connected: return", the first statement of both connect methods.
AlreadyConnected_Never(tr) == FALSE

AlreadyConnected(tr) == tr.connected

\* "if self._closed: return", the first statement of both close methods.
AlreadyClosed(tr) == tr.closed

\* BaseTransport.is_connected.
IsConnectedTransport(tr) == tr.connected /\ ~tr.closed

\* STDIOTransport._cleanup: the reader is cancelled if it has not finished; if
\* there is a process, its input stream is closed and it is terminated (and
\* killed when it does not exit in time), unless closing the stream raises:
\* then the except clause logs a warning and terminate() is never reached.
\* Either way the finally clause drops the handle.
Cleanup(tr, stdin_close_raises) ==
    [transport |-> [tr EXCEPT !.process = 0],
     read_tasks |-> IF tr.read_task # 0 /\ read_tasks[tr.read_task] = "running"
                    THEN [read_tasks EXCEPT ![tr.read_task] = "cancelled"]
                    ELSE read_tasks,
     children |-> IF tr.process # 0 /\ ~stdin_close_raises
                  THEN [children EXCEPT ![tr.process] = "exited"]
                  ELSE children]

\* Whether closing the child's input stream can raise: only if there is one.
StdinCloseRaises == IF stdio.process # 0 THEN BOOLEAN ELSE {FALSE}

Repeated(name, on) == repeated \cup {<<name, on>>}

\* STDIOTransport.connect.
StdioConnect ==
    /\ ncalls < MaxCalls
    /\ ncalls' = ncalls + 1
    /\ IF AlreadyConnected(stdio)
       THEN /\ last' = Call("connect", "stdio", "none", FALSE, FALSE, stdio)
            /\ repeated' = Repeated("connect", "stdio")
            /\ UNCHANGED <<stdio, children, read_tasks>>
       ELSE \/ \* create_subprocess_exec returns a process
               /\ children' = Append(children, "running")
               /\ read_tasks' = Append(read_tasks, "running")
               /\ stdio' = [stdio EXCEPT !.process = Len(children) + 1,
                                         !.read_task = Len(read_tasks) + 1,
                                         !.connected = TRUE]
               /\ last' = Call("connect", "stdio", "none", FALSE, TRUE, stdio)
               /\ UNCHANGED repeated
            \/ \* create_subprocess_exec raises
               \E stdin_close_raises \in StdinCloseRaises :
                  LET c == Cleanup(stdio, stdin_close_raises) IN
                  /\ stdio' = c.transport
                  /\ read_tasks' = c.read_tasks
                  /\ children' = c.children
                  /\ last' = Call("connect", "stdio", "ConnectionError", FALSE, FALSE, stdio)
                  /\ repeated' = Repeated("connect failed", "stdio")
    /\ UNCHANGED <<http, sessions>>
    /\ UNCHANGED notLifecycleVars

\* STDIOTransport.close.
StdioClose ==
    /\ ncalls < MaxCalls
    /\ ncalls' = ncalls + 1
    /\ last' = Call("close", "stdio", "none", FALSE, FALSE, stdio)
    /\ IF AlreadyClosed(stdio)
       THEN /\ repeated' = Repeated("close", "stdio")
            /\ UNCHANGED <<stdio, children, read_tasks>>
       ELSE \E stdin_close_raises \in StdinCloseRaises :
               LET c == Cleanup([stdio EXCEPT !.connected = FALSE, !.closed = TRUE],
                                stdin_close_raises) IN
               /\ stdio' = c.transport
               /\ read_tasks' = c.read_tasks
               /\ children' = c.children
               /\ UNCHANGED repeated
    /\ UNCHANGED <<http, sessions>>
    /\ UNCHANGED notLifecycleVars

\* What a send method of the process transport raises before it writes:
\* send_notification tests is_connected, send_request and send_message test
\* the process handle and _connected.
StdioSendRefused(method) ==
    IF method = "send_notification" /\ ~IsConnectedTransport(stdio) THEN "RuntimeError"
    ELSE IF stdio.process = 0 \/ ~stdio.connected THEN "ConnectionError"
    ELSE "none"

\* STDIOTransport.send_message and send_request, BaseTransport.send_notification:
\* the write to the child's input stream succeeds or raises; send_request then
\* waits for a response, which only a running reader can deliver.
StdioSend(method) ==
    /\ ncalls < MaxCalls
    /\ ncalls' = ncalls + 1
    /\ IF StdioSendRefused(method) # "none"
       THEN last' = Call(method, "stdio", StdioSendRefused(method), FALSE, FALSE, stdio)
       ELSE \/ last' = Call(method, "stdio", "ConnectionError", FALSE, FALSE, stdio)
            \/ /\ method = "send_request" => /\ read_tasks[stdio.read_task] = "running"
                                             /\ IsConnectedTransport(stdio)
               /\ last' = Call(method, "stdio", "none", TRUE, FALSE, stdio)
            \/ /\ method = "send_request"
               /\ last' = Call(method, "stdio", "TimeoutError", TRUE, FALSE, stdio)
    /\ UNCHANGED <<stdio, http, children, read_tasks, sessions, repeated>>
    /\ UNCHANGED notLifecycleVars

\* The child exits by itself.
ChildExits ==
    /\ \E i \in DOMAIN children :
          /\ children[i] = "running"
          /\ children' = [children EXCEPT ![i] = "exited"]
    /\ UNCHANGED <<stdio, http, read_tasks, sessions, last, ncalls, repeated>>
    /\ UNCHANGED notLifecycleVars

\* STDIOTransport._read_responses ends: its child's output stream is at its
\* end, or the loop condition "self._connected and not self._closed" is false.
ReaderEnds ==
    /\ \E i \in DOMAIN read_tasks :
          /\ read_tasks[i] = "running"
          /\ children[i] = "exited" \/ ~IsConnectedTransport(stdio)
          /\ read_tasks' = [read_tasks EXCEPT ![i] = "done"]
    /\ UNCHANGED <<stdio, http, children, sessions, last, ncalls, repeated>>
    /\ UNCHANGED notLifecycleVars

\* "if self.session: await self.session.close(); self.session = None", in
\* the except clause of HTTPTransport.connect and in HTTPTransport.close.
DropSession_Kept(tr, ss) == [transport |-> tr, sessions |-> ss]

DropSession(tr, ss) ==
    [transport |-> [tr EXCEPT !.session = 0],
     sessions |-> IF tr.session # 0 THEN [ss EXCEPT ![tr.session] = "closed"] ELSE ss]

\* HTTPTransport.connect and _test_connection.
HttpConnect ==
    /\ ncalls < MaxCalls
    /\ ncalls' = ncalls + 1
    /\ IF AlreadyConnected(http)
       THEN /\ last' = Call("connect", "http", "none", FALSE, FALSE, http)
            /\ repeated' = Repeated("connect", "http")
            /\ UNCHANGED <<http, sessions>>
       ELSE \/ \* the session is created and the test request goes through
               /\ sessions' = Append(sessions, "open")
               /\ http' = [http EXCEPT !.session = Len(sessions) + 1, !.connected = TRUE]
               /\ last' = Call("connect", "http", "none", TRUE, TRUE, http)
               /\ UNCHANGED repeated
            \/ \* the test request fails: the session is closed and dropped
               /\ LET d == DropSession([http EXCEPT !.session = Len(sessions) + 1],
                                       Append(sessions, "open")) IN
                  /\ http' = d.transport
                  /\ sessions' = d.sessions
               /\ last' = Call("connect", "http", "ConnectionError", FALSE, TRUE, http)
               /\ repeated' = Repeated("connect failed", "http")
            \/ \* aiohttp.ClientSession raises: self.session is still None
               /\ last' = Call("connect", "http", "ConnectionError", FALSE, FALSE, http)
               /\ repeated' = Repeated("connect failed", "http")
               /\ UNCHANGED <<http, sessions>>
    /\ UNCHANGED <<stdio, children, read_tasks>>
    /\ UNCHANGED notLifecycleVars

\* HTTPTransport.close.
HttpClose ==
    /\ ncalls < MaxCalls
    /\ ncalls' = ncalls + 1
    /\ last' = Call("close", "http", "none", FALSE, FALSE, http)
    /\ IF AlreadyClosed(http)
       THEN /\ repeated' = Repeated("close", "http")
            /\ UNCHANGED <<http, sessions>>
       ELSE /\ LET d == DropSession([http EXCEPT !.connected = FALSE, !.closed = TRUE],
                                    sessions) IN
               /\ http' = d.transport
               /\ sessions' = d.sessions
            /\ UNCHANGED repeated
    /\ UNCHANGED <<stdio, children, read_tasks>>
    /\ UNCHANGED notLifecycleVars

\* HTTPTransport.send_message and send_request, BaseTransport.send_notification:
\* the POST is answered (with a status below 400, or with an error status) or
\* fails with an aiohttp.ClientError.
HttpSend(method) ==
    /\ ncalls < MaxCalls
    /\ ncalls' = ncalls + 1
    /\ IF method = "send_notification" /\ ~IsConnectedTransport(http)
       THEN last' = Call(method, "http", "RuntimeError", FALSE, FALSE, http)
       ELSE IF http.session = 0 \/ ~http.connected
       THEN last' = Call(method, "http", "ConnectionError", FALSE, FALSE, http)
       ELSE \E result \in {"none", "ProtocolError", "ConnectionError"} :
               last' = Call(method, "http", result, result # "ConnectionError", FALSE, http)
    /\ UNCHANGED <<stdio, http, children, read_tasks, sessions, repeated>>
    /\ UNCHANGED notLifecycleVars

LifecycleNext ==
    \/ StdioConnect
    \/ StdioClose
    \/ \E method \in SendMethods : StdioSend(method)
    \/ ChildExits
    \/ ReaderEnds
    \/ HttpConnect
    \/ HttpClose
    \/ \E method \in SendMethods : HttpSend(method)

LifecycleSpec == Init /\ [][LifecycleNext]_vars

(***************************************************************************)
(* The output stream of the child of a connected process transport: the    *)
(* child writes lines, the reader task takes them up one at a time, and    *)
(* receive_message hands out what the reader has put on the queue.         *)
(***************************************************************************)

\* The lines the child writes in one run.
MaxLines == 4

\* A line of the child's output: the text of a JSON-RPC message (its document
\* in doc), text that is no JSON, or nothing but white space; overlong: the
\* line is longer than the stream's limit (64 KiB unless
\* create_subprocess_exec is given another, and connect gives none).
OutputLine(text, doc, overlong) == [text |-> text, doc |-> doc, overlong |-> overlong]

OutputLines ==
    {OutputLine("message", ResultResponse(JStr(id), JEmptyObj), FALSE) : id \in {"a", "b"}}
        \cup {OutputLine("garbage", JAbsent, long) : long \in BOOLEAN}
        \cup {OutputLine("blank", JAbsent, FALSE)}

\* The child writes a line to its output stream.
ChildWritesLine ==
    /\ ~eof
    /\ Len(written) < MaxLines
    /\ \E line \in OutputLines :
          /\ pipe' = Append(pipe, line)
          /\ written' = Append(written, line)
    /\ UNCHANGED <<eof, read_task, response_queue, received>>
    /\ UNCHANGED notStreamVars

\* The child closes its output stream (it exits).
ChildClosesOutput ==
    /\ ~eof
    /\ eof' = TRUE
    /\ UNCHANGED <<pipe, read_task, response_queue, received, written>>
    /\ UNCHANGED notStreamVars

\* What one turn of the loop of _read_responses does with the line readline
\* returned: a line of JSON is parsed and put on the queue, a blank line is
\* skipped, and the exception json.loads raises on any other text is caught
\* inside the loop, which goes on.
Enqueue(q, line) == IF line.text = "message" THEN Append(q, line.doc) ELSE q

\* STDIOTransport._read_responses, one turn of its loop.  readline is awaited
\* outside the inner try: when the line is longer than the stream's limit it
\* raises ValueError, the outer except clause logs it and the task ends.  An
\* empty read (the stream is at its end) ends the loop too.
ReaderTurn ==
    /\ read_task = "running"
    /\ IF pipe = <<>>
       THEN /\ eof
            /\ read_task' = "done"
            /\ UNCHANGED <<pipe, response_queue>>
       ELSE IF Head(pipe).overlong
       THEN /\ read_task' = "done"
            /\ UNCHANGED <<pipe, response_queue>>
       ELSE /\ response_queue' = Enqueue(response_queue, Head(pipe))
            /\ pipe' = Tail(pipe)
            /\ UNCHANGED read_task
    /\ UNCHANGED <<eof, received, written>>
    /\ UNCHANGED notStreamVars

\* STDIOTransport.receive_message on the connected transport, when a message is
\* on the queue (with none it raises TimeoutError after the timeout and
\* changes nothing).
Receive ==
    /\ response_queue # <<>>
    /\ received' = Append(received, Head(response_queue))
    /\ response_queue' = Tail(response_queue)
    /\ UNCHANGED <<pipe, eof, read_task, written>>
    /\ UNCHANGED notStreamVars

StreamNext ==
    \/ ChildWritesLine
    \/ ChildClosesOutput
    \/ ReaderTurn
    \/ Receive

StreamSpec == Init /\ [][StreamNext]_vars

(***************************************************************************)
(* A discovery pass (discovery.py) over a connected process transport,     *)
(* after get_server_info has performed the handshake: three catalog tasks  *)
(* run concurrently, then one task per safe tool.  The handshake and its   *)
(* failures are the subject of Spec.                                       *)
(***************************************************************************)

\* The names a server gives its tools.
ToolNames == <<"list_files", "GetStatus", "delete_all", "x\nhelp">>

\* The lists of tools a server answers tools/list with: the names of ToolNames
\* it has, in that order.
ToolLists ==
    LET Pick(S) == [i \in 1..Cardinality(S) |->
                       ToolNames[CHOOSE k \in S : Cardinality({j \in S : j < k}) = i - 1]]
    IN  {Pick(S) : S \in {T \in SUBSET DOMAIN ToolNames : Cardinality(T) <= MaxTools}}

\* str.lower for the letters of the three words.
Lower(c) ==
    CASE c = "L" -> "l" [] c = "I" -> "i" [] c = "S" -> "s" [] c = "T" -> "t"
      [] c = "A" -> "a" [] c = "U" -> "u" [] c = "H" -> "h" [] c = "E" -> "e"
      [] c = "P" -> "p" [] OTHER -> c

\* The word occurs in the name at position i, whatever the case of the letters.
OccursAt(name, word, i) ==
    /\ i + Len(word) - 1 <= Len(name)
    /\ \A j \in 1..Len(word) : Lower(SubSeq(name, i + j - 1, i + j - 1)) = SubSeq(word, j, j)

\* SAFE_TOOL_PATTERN.match(name) for re.compile(r".*(list|status|help).*",
\* re.IGNORECASE): match is anchored at the start of the name and "." matches
\* no newline, so one of the words must occur with no newline before it.
SafeToolPattern_Any(name) == TRUE

SafeToolPattern(name) ==
    \E word \in {"list", "status", "help"}, i \in 1..Len(name) :
        /\ OccursAt(name, word, i)
        /\ \A j \in 1..(i - 1) : SubSeq(name, j, j) # "\n"

\* filter_safe_tools.
FilterSafeTools(tools) == SelectSeq(tools, SafeToolPattern)

\* The method a task of discovery requests.
TaskMethod(t) == IF t \in Range(Categories) THEN t \o "/list" ELSE "tools/call"

\* The key of the items in a resource, and in a tool or a prompt.
ItemKey(category) == IF category = "resources" THEN "uri" ELSE "name"

\* The list a server answers a list request with, as JSON.
ItemList(category, names) ==
    JObj(category :> JList([i \in DOMAIN names |-> JObj(ItemKey(category) :> JStr(names[i]))]))

\* What a server answers the request with: a result (for tools/list any list
\* of ToolLists, for tools/call a result that names the tool) or an error.
ServerResponses(request) ==
    LET id == Get(request.message, "id")
        name == StrOf(Get(Get(request.message, "params"), "name"))
    IN  {ErrorResponse(id)} \cup
        CASE request.method = "tools/list" ->
                {ResultResponse(id, ItemList("tools", l)) : l \in ToolLists}
          [] request.method = "resources/list" ->
                {ResultResponse(id, ItemList("resources", <<ResourceUri>>))}
          [] request.method = "prompts/list" ->
                {ResultResponse(id, ItemList("prompts", <<PromptName>>))}
          [] OTHER -> {ResultResponse(id, JObj([content |-> JStr(name)]))}

\* The request a task writes: list_* / call_tool(name, {}) build the params,
\* send_request the message.  Every request of a pass carries the id of the
\* millisecond the pass runs in.  answer is what the server answers it with,
\* late whether the answer came after the task's timeout had run out.
TaskRequest(t, name) ==
    [task |-> t,
     method |-> TaskMethod(t),
     message |-> Request(TaskMethod(t),
                         IF t \in Range(Categories) THEN JAbsent
                         ELSE JObj([name |-> JStr(name)]),
                         CreateRequestId(0)),
     answer |-> JAbsent,
     late |-> FALSE]

\* The names in the list a list operation returned: _process_tool_data and its
\* like read the key of every item; anything that is not a list of dicts makes
\* the loop raise (or is empty), and the catalog task returns [].
Names(items, key) ==
    IF TypeOf(items) # "list" \/ \E k \in Keys(items) : ~IsDict(Get(items, k)) THEN <<>>
    ELSE [i \in 1..Cardinality(Keys(items)) |->
              StrOf(GetOr(Get(items, ToString(i)), key,
                          JStr(IF key = "uri" THEN "" ELSE "unknown")))]

\* catalog_tools / catalog_resources / catalog_prompts, given the message
\* receive_message handed to the task's send_request: every exception of
\* send_request and of the list operation ends in "return []".
CatalogOutcome(category, msg) ==
    IF SendRequestRaises(msg) # "" THEN Cataloged(<<>>)
    ELSE LET o == ListOutcome(category, msg)
         IN  IF o.kind = "raise" THEN Cataloged(<<>>)
             ELSE Cataloged(Names(o.val, ItemKey(category)))

\* _explore_single_tool, given the message handed to call_tool's send_request.
TickleOutcome(msg) ==
    IF SendRequestRaises(msg) # "" THEN Explored("failed_empty_params", JAbsent)
    ELSE LET o == CallOutcome(msg)
         IN  IF o.kind = "raise" THEN Explored("failed_empty_params", JAbsent)
             ELSE Explored("success", o.val)

TaskOutcome(t, msg) ==
    IF t \in Range(Categories) THEN CatalogOutcome(t, msg) ELSE TickleOutcome(msg)

\* What a task returns when its send_request raises without a message (the
\* write fails, or receive_message times out).
TaskFailed(t) ==
    IF t \in Range(Categories) THEN Cataloged(<<>>) ELSE Explored("failed_empty_params", JAbsent)

\* The tasks in ts (a sequence) start, one after the other, each with the name
\* of names at the same position: a task whose write fails returns at once; the
\* others write their requests, take the messages left on the queue, first
\* come first served, and when there are none begin to wait.
StartTasks(ts, names, failing) ==
    LET writers == SelectSeq(ts, LAMBDA t : t \notin failing)
        taken == IF Len(inbox) < Len(writers) THEN Len(inbox) ELSE Len(writers)
        NameOf(t) == names[CHOOSE i \in DOMAIN ts : ts[i] = t]
    IN  /\ wire' = wire \o [i \in DOMAIN writers |-> TaskRequest(writers[i], NameOf(writers[i]))]
        /\ waiting' = waiting \o SubSeq(writers, taken + 1, Len(writers))
        /\ inbox' = SubSeq(inbox, taken + 1, Len(inbox))
        /\ finished' = [t \in DiscoveryTasks |->
                           IF t \in failing /\ t \in Range(ts) THEN TaskFailed(t)
                           ELSE IF \E i \in 1..taken : writers[i] = t
                           THEN TaskOutcome(t, inbox[CHOOSE i \in 1..taken : writers[i] = t])
                           ELSE finished[t]]

\* The writes that fail when tasks start: none, or the write of one task.
FailingWrites(ts) == {{}} \cup {{ts[i]} : i \in DOMAIN ts}

\* discover_endpoint up to its gather: get_server_info has returned, and the
\* three catalog tasks are created and run to their first suspension.
DiscoverEndpoint ==
    /\ phase = "idle"
    /\ phase' = "listing"
    /\ \E tickle \in BOOLEAN : tool_tickle' = tickle
    /\ \E failing \in FailingWrites(Categories) :
          StartTasks(Categories, Categories, failing)
    /\ UNCHANGED <<safe_tools, misrouted, deadline>>
    /\ UNCHANGED notDiscoveryVars

\* The server answers a request it has not answered yet, in any order.  The
\* reader puts the message on the queue, and the queue hands it to the task
\* that has waited longest, whichever request it answers; with no task
\* waiting the message stays on the queue.
ServerAnswers ==
    /\ phase \in {"listing", "exploring"}
    /\ \E i \in DOMAIN wire :
          /\ wire[i].answer = JAbsent
          /\ \E msg \in ServerResponses(wire[i]) :
                /\ wire' = [wire EXCEPT ![i].answer = msg,
                                        ![i].late = (wire[i].task \in deadline)]
                /\ IF waiting = <<>>
                   THEN /\ inbox' = Append(inbox, msg)
                        /\ misrouted' = TRUE
                        /\ UNCHANGED <<waiting, finished>>
                   ELSE /\ finished' = [finished EXCEPT
                                           ![Head(waiting)] = TaskOutcome(Head(waiting), msg)]
                        /\ waiting' = Tail(waiting)
                        /\ misrouted' = (misrouted \/ wire[i].task # Head(waiting))
                        /\ UNCHANGED inbox
    /\ UNCHANGED <<phase, tool_tickle, safe_tools, deadline>>
    /\ UNCHANGED notDiscoveryVars

\* receive_message times out in the task that has waited longest.  The tasks
\* of one gather begin to wait together and wait for the same time: the
\* timeout of all of them has run out.
ReceiveTimesOut ==
    /\ waiting # <<>>
    /\ finished' = [finished EXCEPT ![Head(waiting)] = TaskFailed(Head(waiting))]
    /\ waiting' = Tail(waiting)
    /\ deadline' = deadline \cup (IF phase = "listing" THEN Range(Categories)
                                  ELSE DiscoveryTasks \ Range(Categories))
    /\ UNCHANGED <<phase, tool_tickle, wire, inbox, safe_tools, misrouted>>
    /\ UNCHANGED notDiscoveryVars

\* discover_endpoint after its gather: with tickle enabled and a tool in the
\* catalog, explore_tools filters the safe tools and creates one task for
\* each, which run to their first suspension; with no safe tool its gather is
\* empty and it returns {}.
ExploreTools ==
    /\ phase = "listing"
    /\ \A i \in DOMAIN Categories : finished[Categories[i]] # Pending
    /\ IF tool_tickle /\ finished["tools"].names # <<>>
       THEN LET safe == FilterSafeTools(finished["tools"].names)
                tasks == [i \in DOMAIN safe |-> TickleTask(i)]
            IN  /\ safe_tools' = safe
                /\ phase' = IF safe = <<>> THEN "done" ELSE "exploring"
                /\ \E failing \in FailingWrites(tasks) : StartTasks(tasks, safe, failing)
       ELSE /\ phase' = "done"
            /\ UNCHANGED <<wire, waiting, inbox, finished, safe_tools>>
    /\ UNCHANGED <<tool_tickle, misrouted, deadline>>
    /\ UNCHANGED notDiscoveryVars

\* explore_tools after its gather, and the rest of discover_endpoint.
ReturnResult ==
    /\ phase = "exploring"
    /\ \A i \in DOMAIN safe_tools : finished[TickleTask(i)] # Pending
    /\ phase' = "done"
    /\ UNCHANGED <<tool_tickle, wire, waiting, inbox, finished, safe_tools, misrouted, deadline>>
    /\ UNCHANGED notDiscoveryVars

\* DiscoveryResult.tools / resources / prompts, once discover_endpoint returned.
ResultCategory(category) == finished[category].names

\* DiscoveryResult.tool_exploration[name]: explore_tools stores the results by
\* name, in the order of the safe tools.
ToolExploration(name) ==
    finished[TickleTask(CHOOSE i \in DOMAIN safe_tools :
                            /\ safe_tools[i] = name
                            /\ \A j \in DOMAIN safe_tools : safe_tools[j] = name => j <= i)]

DiscoveryNext ==
    \/ DiscoverEndpoint
    \/ ServerAnswers
    \/ ReceiveTimesOut
    \/ ExploreTools
    \/ ReturnResult

DiscoverySpec == Init /\ [][DiscoveryNext]_vars

(***************************************************************************)
(* The two pure functions, called on their own: validate_json_rpc_message  *)
(* (utils/helpers.py) on a message, and MCPVersionDetector.detect_version  *)
(* (version_detection.py) on a server_info, a capability mapping and a     *)
(* method list.                                                            *)
(***************************************************************************)
\* Python: m with m[k] = v, or m itself when there is no value to store.
Put(m, k, v) == IF v = JAbsent THEN m ELSE With(m, k, v)

\* The messages validation is called on: every combination of the fields it
\* looks at (each absent or present, jsonrpc also with another version and as
\* a number, id also as null), and three values that are no dict.
CandidateMessages ==
    { Put(Put(Put(Put(Put(Put(JEmptyObj, "jsonrpc", j), "method", me), "id", i),
                      "result", r), "error", e), "params", p) :
        j \in {JAbsent, JStr("2.0"), JStr("1.0"), JNum(2)},
        me \in {JAbsent, JStr("ping")},
        i \in {JAbsent, JStr("mcpeek-1"), JNull},
        r \in {JAbsent, JEmptyObj},
        e \in {JAbsent, JObj([code |-> JNum(-32601), message |-> JStr("Method not found")])},
        p \in {JAbsent, JEmptyObj} }
    \cup {JNull, JEmptyList, JStr("ping")}

\* validate_json_rpc_message(m) is called: it returns, or raises ValidationError.
Validate(m) ==
    /\ candidate' = m
    /\ verdict' = IF ValidateJsonRpcMessage(m) THEN "accepted" ELSE "ValidationError"
    /\ UNCHANGED <<detect_args, detected_version>>
    /\ UNCHANGED notFunctionVars

ValidationNext == \E m \in CandidateMessages : Validate(m)

ValidationSpec == Init /\ [][ValidationNext]_vars

\* The protocol versions a server states: those of the version table, one the
\* table does not have, and the string detect_version uses for none.
ProtocolVersions == {"2024-11-05", "2024-10-07", "2024-06-25", "2025-03-26", "unknown"}

\* server_info_for_detection of initialize_connection, and a server_info without
\* the protocol_version key.
ServerInfos ==
    {JObj([protocol_version |-> JStr(v), server_name |-> JStr("stub"),
           server_version |-> JStr("0.1")]) : v \in ProtocolVersions}
    \cup {JObj([server_name |-> JStr("stub")])}

CapabilityNames == {"tools", "resources", "prompts", "sampling", "roots"}

\* The capability mappings of a handshake: any of the names with an empty
\* descriptor, and resources and roots also with their nested flags.
CapabilityMappings ==
    {JObj([k \in S |-> JEmptyObj]) : S \in SUBSET CapabilityNames}
    \cup {JObj([tools |-> JEmptyObj, prompts |-> JEmptyObj,
                resources |-> JObj([subscribe |-> JFalse, listChanged |-> JFalse]),
                roots |-> JObj([listChanged |-> JFalse])])}

\* available_methods=None, the default (initialize_connection passes nothing).
MethodsNone == [supplied |-> FALSE, list |-> <<>>]

MethodList(names) == [supplied |-> TRUE, list |-> names]

BasicMethods ==
    <<"tools/list", "tools/call", "resources/list", "resources/read", "prompts/list", "prompts/get">>

AvailableMethods ==
    {MethodsNone, MethodList(<<>>), MethodList(<<"tools/list", "tools/call">>),
     MethodList(BasicMethods),
     MethodList(BasicMethods \o <<"resources/subscribe", "resources/unsubscribe">>)}

\* detect_version: protocol_version = server_info.get("protocol_version", "unknown"),
\* methods = methods or [].
DetectVersionOf(info, capabilities, available_methods) ==
    DetectVersion(StrOf(GetOr(info, "protocol_version", JStr("unknown"))), capabilities,
                  Range(available_methods.list))

\* detect_version(info, capabilities, available_methods) is called.
DetectVersionCall(info, capabilities, available_methods) ==
    /\ detect_args' = [called |-> TRUE, server_info |-> info,
                       server_capabilities |-> capabilities,
                       available_methods |-> available_methods]
    /\ detected_version' = DetectVersionOf(info, capabilities, available_methods)
    /\ UNCHANGED <<candidate, verdict>>
    /\ UNCHANGED notFunctionVars

DetectionNext ==
    \E info \in ServerInfos, capabilities \in CapabilityMappings, m \in AvailableMethods :
        DetectVersionCall(info, capabilities, m)

DetectionSpec == Init /\ [][DetectionNext]_vars

(***************************************************************************)
(* Calls on a connected transport (transports/stdio.py, transports/http.py):*)
(* send_message, receive_message and send_request, made one after another  *)
(* by one task, with the peer doing what it likes: the child reads its     *)
(* input or stops reading it, writes lines, exits; the HTTP server answers a*)
(* POST with any status and body, or not at all.  Both transports are      *)
(* connected and not closed.                                               *)
(***************************************************************************)
\* The calls made in one run.
MaxExchanges == 2

\* The lines the child writes in one run.
MaxReplies == 2

\* The lines the pipe to the child and the writer's buffer hold together before
\* drain() waits for the child to read (the pipe's capacity and the stream's
\* high-water mark, counted in lines of the size the callers send).
PipeRoom == 1

\* The id of the requests (what it is plays no part in these calls).
ExchangeId == JStr("mcpeek-1")

\* The messages a caller hands to send_message: a notification, a request, and
\* three that validation rejects (no jsonrpc tag, another version, neither method
\* nor result nor error).
OutgoingMessages ==
    {Notification("notifications/initialized"),
     Request("ping", JAbsent, ExchangeId),
     JObj([method |-> JStr("ping")]),
     JObj([jsonrpc |-> JStr("1.0"), method |-> JStr("ping")]),
     JObj([jsonrpc |-> JStr("2.0"), id |-> ExchangeId])}

\* The messages a peer sends: a result, an error with an error object, an error
\* that is a string, and two that validation rejects (no jsonrpc tag, a result
\* without id).
PeerMessages ==
    {ResultResponse(ExchangeId, JEmptyObj),
     ErrorResponse(ExchangeId),
     JObj([jsonrpc |-> JStr("2.0"), id |-> ExchangeId, error |-> JStr("boom")]),
     JObj([id |-> ExchangeId, result |-> JEmptyObj]),
     JObj([jsonrpc |-> JStr("2.0"), result |-> JEmptyObj])}

\* The statuses of an HTTP response: success, a redirection the session does
\* not follow (no Location header), an error.
HttpStatuses == {200, 302, 404}

\* The HTTP responses: any status with an empty body, with a body that is no
\* JSON text or with a result; status 200 also with the peer's other messages.
HttpResponses ==
    {Reply(st, "empty", JAbsent) : st \in HttpStatuses}
    \cup {Reply(st, "garbage", JAbsent) : st \in HttpStatuses}
    \cup {Reply(st, "json", ResultResponse(ExchangeId, JEmptyObj)) : st \in HttpStatuses}
    \cup {Reply(200, "json", m) : m \in PeerMessages}

\* await response.text(): the body as text.
BodyText(reply) ==
    CASE reply.text = "empty" -> ""
      [] reply.text = "garbage" -> "<html>"
      [] OTHER -> "json"

\* send_request, after the response message is in hand:
\* if "error" in response: error = response["error"];
\* raise ProtocolError(f"MCP Error {error.get('code', 'unknown')}: {error.get('message', ...)}").
\* error.get raises AttributeError when error is no dict.
ErrorCheck(msg, reply) ==
    IF Has(msg, "error")
    THEN LET error == Get(msg, "error")
         IN  IF IsDict(error)
             THEN RpcRaise("ProtocolError", "",
                           Detail(GetOr(error, "code", JStr("unknown")),
                                  GetOr(error, "message", JStr("Unknown error")), 0, ""),
                           reply)
             ELSE RpcRaise("AttributeError", "", NoDetail, reply)
    ELSE RpcReturn(msg, reply)

\* receive_message, after the queue gave a message: validation, then the message.
Received(msg, reply) ==
    IF ValidateJsonRpcMessage(msg) THEN RpcReturn(msg, reply)
    ELSE RpcRaise("ValidationError", "", NoDetail, reply)

\* STDIOTransport.send_request, after the queue gave a message.
StdioRequestEnds(msg) ==
    IF ValidateJsonRpcMessage(msg) THEN ErrorCheck(msg, Reply(0, "json", msg))
    ELSE RpcRaise("ValidationError", "", NoDetail, Reply(0, "json", msg))

\* HTTPTransport.send_request, inside "async with self.session.post(...) as response".
HttpRequestEnds(reply) ==
    IF reply.status >= 400
    THEN RpcRaise("ProtocolError", "", Detail(JAbsent, JAbsent, reply.status, BodyText(reply)),
                  reply)
    ELSE IF BodyText(reply) = ""
    THEN RpcRaise("ProtocolError", "", NoDetail, reply)
    ELSE IF reply.text # "json" \/ ~ValidateJsonRpcMessage(reply.doc)
    THEN RpcRaise("ValidationError", "", NoDetail, reply)
    ELSE ErrorCheck(reply.doc, reply)

\* HTTPTransport.send_message, inside "async with self.session.post(...) as response":
\* what it raises or returns, and the queue after it.
HttpMessageEnds(reply, q) ==
    IF reply.status >= 400
    THEN [result |-> RpcRaise("ProtocolError", "",
                              Detail(JAbsent, JAbsent, reply.status, BodyText(reply)), reply),
          queue |-> q]
    ELSE IF BodyText(reply) = ""
    THEN [result |-> RpcReturn(JNull, reply), queue |-> q]
    ELSE IF reply.text # "json"
    THEN [result |-> RpcRaise("ValidationError", "", NoDetail, reply), queue |-> q]
    ELSE [result |-> RpcReturn(JNull, reply), queue |-> Append(q, reply.doc)]

\* A call begins: the caller is not inside another call.
MayCall ==
    /\ rpc_pc = "idle"
    /\ exchanges < MaxExchanges

\* A call ends with the result.
Ends(result) ==
    /\ rpc_pc' = "idle"
    /\ rpc_result' = result

\* STDIOTransport.send_message up to its await of drain(), for the call c.  The
\* validation failure is caught by "except Exception" and raised as
\* ConnectionError, like a failure of the write.  When the child has exited the
\* write raises or is accepted and lost.
StdioWrite(c) ==
    /\ rpc' = c
    /\ IF ~ValidateJsonRpcMessage(c.message)
       THEN /\ Ends(RpcRaise("ConnectionError", "ValidationError", NoDetail, NoReply))
            /\ UNCHANGED <<channel, unread>>
       ELSE IF peer = "exited"
       THEN \/ /\ Ends(RpcRaise("ConnectionError", "BrokenPipeError", NoDetail, NoReply))
               /\ UNCHANGED <<channel, unread>>
            \/ /\ rpc_pc' = "drain"
               /\ channel' = Append(channel, [on |-> "stdio", message |-> c.message])
               /\ UNCHANGED <<rpc_result, unread>>
       ELSE /\ rpc_pc' = "drain"
            /\ channel' = Append(channel, [on |-> "stdio", message |-> c.message])
            /\ unread' = unread + 1
            /\ UNCHANGED rpc_result

\* HTTPTransport.send_message / send_request up to the await of the POST, for the
\* call c.  The validation failure is not caught: the only except clauses are for
\* aiohttp.ClientError and asyncio.TimeoutError.
HttpPost(c) ==
    /\ rpc' = c
    /\ UNCHANGED unread
    /\ IF ~ValidateJsonRpcMessage(c.message)
       THEN /\ Ends(RpcRaise("ValidationError", "", NoDetail, NoReply))
            /\ UNCHANGED channel
       ELSE /\ rpc_pc' = "post"
            /\ channel' = Append(channel, [on |-> "http", message |-> c.message])
            /\ UNCHANGED rpc_result

\* send_message(m) is called on the transport.
CallSendMessage(on, m) ==
    /\ MayCall
    /\ exchanges' = exchanges + 1
    /\ IF on = "stdio" THEN StdioWrite(Rpc("send_message", on, m, Len(channel)))
       ELSE HttpPost(Rpc("send_message", on, m, Len(channel)))
    /\ UNCHANGED <<queues, peer, peer_lines>>
    /\ UNCHANGED notExchangeVars

\* send_request(method) is called on the transport: the request is built and sent.
CallSendRequest(on, method) ==
    /\ MayCall
    /\ exchanges' = exchanges + 1
    /\ LET c == Rpc("send_request", on, Request(method, JAbsent, ExchangeId), Len(channel))
       IN  IF on = "stdio" THEN StdioWrite(c) ELSE HttpPost(c)
    /\ UNCHANGED <<queues, peer, peer_lines>>
    /\ UNCHANGED notExchangeVars

\* receive_message() is called on the transport: it waits for the queue.
CallReceiveMessage(on) ==
    /\ MayCall
    /\ exchanges' = exchanges + 1
    /\ rpc' = Rpc("receive_message", on, JAbsent, Len(channel))
    /\ rpc_pc' = "recv"
    /\ UNCHANGED <<rpc_result, channel, queues, peer, unread, peer_lines>>
    /\ UNCHANGED notExchangeVars

\* drain() returns: the pipe and the buffer have room again.  send_message
\* returns; send_request goes on to receive_message.
DrainReturns ==
    /\ rpc_pc = "drain"
    /\ unread <= PipeRoom
    /\ IF rpc.call = "send_request"
       THEN rpc_pc' = "recv" /\ UNCHANGED rpc_result
       ELSE Ends(RpcReturn(JNull, NoReply))
    /\ UNCHANGED <<rpc, channel, queues, peer, unread, exchanges, peer_lines>>
    /\ UNCHANGED notExchangeVars

\* drain() raises because the child's end of the pipe is gone; send_message raises
\* ConnectionError.
DrainRaises ==
    /\ rpc_pc = "drain"
    /\ peer = "exited"
    /\ unread > PipeRoom
    /\ Ends(RpcRaise("ConnectionError", "ConnectionResetError", NoDetail, NoReply))
    /\ UNCHANGED <<rpc, channel, queues, peer, unread, exchanges, peer_lines>>
    /\ UNCHANGED notExchangeVars

\* receive_message: the queue gives its first message within the timeout.
QueueGet ==
    /\ rpc_pc = "recv"
    /\ queues[rpc.on] # <<>>
    /\ queues' = [queues EXCEPT ![rpc.on] = Tail(@)]
    /\ LET msg == Head(queues[rpc.on])
       IN  Ends(IF rpc.call = "send_request" THEN StdioRequestEnds(msg)
                ELSE Received(msg, Reply(0, "json", msg)))
    /\ UNCHANGED <<rpc, channel, peer, unread, exchanges, peer_lines>>
    /\ UNCHANGED notExchangeVars

\* receive_message: asyncio.wait_for runs out with the queue still empty.
WaitForTimesOut ==
    /\ rpc_pc = "recv"
    /\ queues[rpc.on] = <<>>
    /\ Ends(RpcRaise("TimeoutError", "asyncio.TimeoutError", NoDetail, NoReply))
    /\ UNCHANGED <<rpc, channel, queues, peer, unread, exchanges, peer_lines>>
    /\ UNCHANGED notExchangeVars

\* The HTTP server answers the POST.
PostAnswered(reply) ==
    /\ rpc_pc = "post"
    /\ IF rpc.call = "send_request"
       THEN Ends(HttpRequestEnds(reply)) /\ UNCHANGED queues
       ELSE /\ Ends(HttpMessageEnds(reply, queues["http"]).result)
            /\ queues' = [queues EXCEPT !["http"] = HttpMessageEnds(reply, @).queue]
    /\ UNCHANGED <<rpc, channel, peer, unread, exchanges, peer_lines>>
    /\ UNCHANGED notExchangeVars

\* The session's total timeout runs out before the response is there.
PostTimesOut ==
    /\ rpc_pc = "post"
    /\ Ends(RpcRaise("TimeoutError", "asyncio.TimeoutError", NoDetail, NoReply))
    /\ UNCHANGED <<rpc, channel, queues, peer, unread, exchanges, peer_lines>>
    /\ UNCHANGED notExchangeVars

\* The connection to the HTTP server fails (aiohttp.ClientError).
PostFails ==
    /\ rpc_pc = "post"
    /\ Ends(RpcRaise("ConnectionError", "aiohttp.ClientError", NoDetail, NoReply))
    /\ UNCHANGED <<rpc, channel, queues, peer, unread, exchanges, peer_lines>>
    /\ UNCHANGED notExchangeVars

\* The child reads a line of its input.
PeerReads ==
    /\ peer = "reading"
    /\ unread > 0
    /\ unread' = unread - 1
    /\ UNCHANGED <<rpc, rpc_pc, rpc_result, channel, queues, peer, exchanges, peer_lines>>
    /\ UNCHANGED notExchangeVars

\* The child stops reading its input (it keeps running).
PeerStalls ==
    /\ peer = "reading"
    /\ peer' = "stalled"
    /\ UNCHANGED <<rpc, rpc_pc, rpc_result, channel, queues, unread, exchanges, peer_lines>>
    /\ UNCHANGED notExchangeVars

\* The child writes a line of JSON; the reader task puts the document on the queue.
PeerWrites(m) ==
    /\ peer # "exited"
    /\ peer_lines < MaxReplies
    /\ peer_lines' = peer_lines + 1
    /\ queues' = [queues EXCEPT !["stdio"] = Append(@, m)]
    /\ UNCHANGED <<rpc, rpc_pc, rpc_result, channel, peer, unread, exchanges>>
    /\ UNCHANGED notExchangeVars

\* The child exits.
PeerExits ==
    /\ peer # "exited"
    /\ peer' = "exited"
    /\ UNCHANGED <<rpc, rpc_pc, rpc_result, channel, queues, unread, exchanges, peer_lines>>
    /\ UNCHANGED notExchangeVars

\* receive_message ends: with a message, or with the timeout.
RecvEnds == QueueGet \/ WaitForTimesOut

\* The POST ends: with a response, with the timeout, or with a connection failure.
PostEnds == PostTimesOut \/ PostFails \/ \E reply \in HttpResponses : PostAnswered(reply)

ExchangeNext ==
    \/ \E on \in Transports, m \in OutgoingMessages : CallSendMessage(on, m)
    \/ \E on \in Transports : CallSendRequest(on, "tools/list")
    \/ \E on \in Transports : CallReceiveMessage(on)
    \/ DrainReturns
    \/ DrainRaises
    \/ RecvEnds
    \/ PostEnds
    \/ PeerReads
    \/ PeerStalls
    \/ \E m \in PeerMessages : PeerWrites(m)
    \/ PeerExits

ExchangeSpec == Init /\ [][ExchangeNext]_vars

\* The event loop resumes a task whose await can complete, and a timeout that
\* has been set runs out: each await of a call ends when it can.
ExchangeLiveSpec ==
    /\ ExchangeSpec
    /\ WF_vars(DrainReturns)
    /\ WF_vars(DrainRaises)
    /\ WF_vars(RecvEnds)
    /\ WF_vars(PostEnds)

(***************************************************************************)
(* execution.py: execute_tool, read_resource and get_prompt of the         *)
(* Execution Engine, over a Protocol Client whose transport is connected   *)
(* (cli.py creates the client and the engine and calls the engine without  *)
(* a handshake of its own).  One caller; the transport hands every request *)
(* a reply of the peer's choosing, or fails.                               *)
(***************************************************************************)
\* The engine operations one run makes.
MaxRuns == 2

EngineOps == {"execute_tool", "read_resource", "get_prompt"}

\* The names the callers ask for.
RequestedNames == {"alpha", "gamma"}

\* The list operation of the engine operation's existence check.
LookupOp(o) ==
    CASE o = "execute_tool" -> "list_tools"
      [] o = "read_resource" -> "list_resources"
      [] o = "get_prompt" -> "list_prompts"

\* The client operation the engine operation ends with.
ExecuteOp(o) ==
    CASE o = "execute_tool" -> "call_tool"
      [] o = "read_resource" -> "read_resource"
      [] o = "get_prompt" -> "get_prompt"

\* The key the existence check reads from every listed item.
NameKey(o) == ItemKey(ListKey(LookupOp(o)))

TransportFailures == {TransportRaises("TimeoutError"), TransportRaises("ConnectionError")}

\* The arrays a server lists under the key: of items that carry the key, of items
\* without it or with a number there, of strings; and values that are no array.
ListedArrays(key) ==
    LET item(n) == JObj(key :> JStr(n))
        other == JObj("description" :> JStr("x"))
    IN  {JList(<<>>), JList(<<item("alpha")>>), JList(<<item("alpha"), item("beta")>>),
         JList(<<other>>), JList(<<item("beta"), other>>), JList(<<JObj(key :> JNum(1))>>),
         JList(<<JStr("alpha")>>), JStr("alpha"), JStr(""), JEmptyObj, JNull}

\* The replies to a list request: results with the array, without it and results
\* that are no object; an error response; a notification of the server's; a
\* message without the jsonrpc tag.
LookupReplies(o) ==
    LET key == ListKey(LookupOp(o))
    IN  TransportFailures
        \cup {TransportHas(ResultResponse(ExchangeId, JObj(key :> a))) : a \in ListedArrays(NameKey(o))}
        \cup {TransportHas(ResultResponse(ExchangeId, r)) : r \in {JEmptyObj, JNull, JStr("ok")}}
        \cup {TransportHas(ErrorResponse(ExchangeId)),
              TransportHas(Notification("notifications/message")),
              TransportHas(JObj([id |-> ExchangeId, result |-> JEmptyObj]))}

\* The replies to an initialize request.
HandshakeReplies ==
    TransportFailures
    \cup {TransportHas(ResultResponse(ExchangeId, InitResultFull)),
          TransportHas(ErrorResponse(ExchangeId))}

\* The replies to a tools/call, resources/read or prompts/get request.
ExecuteReplies ==
    TransportFailures
    \cup {TransportHas(ResultResponse(ExchangeId, JObj([content |-> JEmptyList]))),
          TransportHas(ErrorResponse(ExchangeId)),
          TransportHas(Notification("notifications/message"))}

\* send_request as the client sees it: the exception it raises, "" when it returns
\* the message.
ReplyRaises(reply) ==
    IF reply.raised # "" THEN reply.raised ELSE SendRequestRaises(reply.msg)

\* initialize_connection returns (sets _initialized) rather than raises.
HandshakeSucceeds(reply) ==
    /\ ReplyRaises(reply) = ""
    /\ ProcessInitialize(reply.msg, JEmptyObj, JEmptyObj, NoVersionInfo).fail = ""

\* The requests a client operation issues: the handshake's when the client is not
\* initialized (the notification and the operation's own request only after the
\* initialize request was answered well).
Issued(flag, hs, method) ==
    IF ~NeedsInitialize(flag) THEN <<method>>
    ELSE IF HandshakeSucceeds(hs) THEN <<"initialize", "notifications/initialized", method>>
    ELSE <<"initialize">>

\* A client operation, handshake included: the handshake's failure leaves it as
\* ConnectionError, a failure of its own request as ProtocolError.
ClientOutcome(o, flag, hs, reply) ==
    IF NeedsInitialize(flag) /\ ~HandshakeSucceeds(hs)
    THEN Raise("handshake", InitError(ReplyRaises(hs)), ReplyRaises(hs))
    ELSE IF ReplyRaises(reply) # ""
    THEN Raise("request", RequestError(ReplyRaises(reply)), ReplyRaises(reply))
    ELSE OpOutcome(o, reply.msg)

\* "[tool.get("name") for tool in tools]" raises AttributeError on an element
\* that is no dict: an item of a list, a character of a string, a key of a dict.
IterationRaises(items) ==
    CASE TypeOf(items) = "list" -> \E k \in Keys(items) : ~IsDict(Get(items, k))
      [] TypeOf(items) = "str" -> StrOf(items) # ""
      [] TypeOf(items) = "dict" -> Keys(items) # {}
      [] OTHER -> TRUE

\* The values the comprehension collects: item.get(key), None where the item has
\* no such key.
ItemNames(items, key) ==
    IF TypeOf(items) # "list" THEN <<>>
    ELSE [i \in 1..Cardinality(Keys(items)) |-> GetOr(Get(items, ToString(i)), key, JNull)]

\* "if tool_name not in tool_names".
NotFound(names, name) == \A i \in DOMAIN names : names[i] # JStr(name)

\* _validate_tool_exists / _validate_resource_exists / _validate_prompt_exists,
\* given what the list operation did: the exception raised ("": it returns), the
\* exception logged as a warning, the names read and the alternatives named.
ExistenceCheck(name, key, out) ==
    IF out.kind = "raise"
    THEN [raises |-> "", warned |-> <<out.exc>>, names |-> <<>>, available |-> <<>>]
    ELSE IF IterationRaises(out.val)
    THEN [raises |-> "", warned |-> <<"AttributeError">>, names |-> <<>>, available |-> <<>>]
    ELSE LET names == ItemNames(out.val, key)
         IN  IF ~NotFound(names, name)
             THEN [raises |-> "", warned |-> <<>>, names |-> names, available |-> <<>>]
             ELSE IF names = <<>>
             THEN [raises |-> "ValidationError", warned |-> <<>>, names |-> names,
                   available |-> <<"none">>]
             ELSE IF \E i \in DOMAIN names : TypeOf(names[i]) # "str"
             THEN [raises |-> "", warned |-> <<"TypeError">>, names |-> names,
                   available |-> <<>>]
             ELSE [raises |-> "ValidationError", warned |-> <<>>, names |-> names,
                   available |-> [i \in DOMAIN names |-> StrOf(names[i])]]

\* execute_tool / read_resource / get_prompt is called (no input data).
EngineCall(o, name) ==
    /\ engine_pc = "idle"
    /\ engine_runs < MaxRuns
    /\ engine_runs' = engine_runs + 1
    /\ engine_call' = EngineCallOf(o, name)
    /\ engine_pc' = "validate"
    /\ lookup_reply' = NoTransportReply
    /\ lookup' = NoOutcome
    /\ listed' = <<>>
    /\ warnings' = <<>>
    /\ engine_result' = NoEngineOutcome
    /\ engine_sent' = <<>>
    /\ UNCHANGED engine_initialized
    /\ UNCHANGED notEngineVars

\* The existence check: the list operation, then the search for the name.  A
\* ValidationError ends the engine operation ("except Exception: ... raise").
ValidateExists(hs, reply) ==
    /\ engine_pc = "validate"
    /\ reply \in LookupReplies(engine_call.op)
    /\ LET o == LookupOp(engine_call.op)
           out == ClientOutcome(o, engine_initialized, hs, reply)
           check == ExistenceCheck(engine_call.name, NameKey(engine_call.op), out)
       IN  /\ lookup_reply' = (IF out.stage = "request" THEN reply ELSE NoTransportReply)
           /\ lookup' = out
           /\ engine_sent' = engine_sent \o Issued(engine_initialized, hs, Method(o))
           /\ engine_initialized' =
                  (engine_initialized \/ (NeedsInitialize(engine_initialized) /\ HandshakeSucceeds(hs)))
           /\ listed' = check.names
           /\ warnings' = check.warned
           /\ IF check.raises # ""
              THEN /\ engine_pc' = "idle"
                   /\ engine_result' = EngineOutcome(Raise("validate", check.raises, ""),
                                                     check.available)
              ELSE /\ engine_pc' = "execute"
                   /\ UNCHANGED engine_result
    /\ UNCHANGED <<engine_call, engine_runs>>
    /\ UNCHANGED notEngineVars

\* client.call_tool / read_resource / get_prompt, whose outcome is the engine
\* operation's.
ExecuteRequest(hs, reply) ==
    /\ engine_pc = "execute"
    /\ LET o == ExecuteOp(engine_call.op)
           out == ClientOutcome(o, engine_initialized, hs, reply)
       IN  /\ engine_result' = EngineOutcome(out, <<>>)
           /\ engine_sent' = engine_sent \o Issued(engine_initialized, hs, Method(o))
           /\ engine_initialized' =
                  (engine_initialized \/ (NeedsInitialize(engine_initialized) /\ HandshakeSucceeds(hs)))
    /\ engine_pc' = "idle"
    /\ UNCHANGED <<engine_call, lookup_reply, lookup, listed, warnings, engine_runs>>
    /\ UNCHANGED notEngineVars

EngineNext ==
    \/ \E o \in EngineOps, name \in RequestedNames : EngineCall(o, name)
    \/ \E hs \in HandshakeReplies, reply \in UNION {LookupReplies(o) : o \in EngineOps} :
           ValidateExists(hs, reply)
    \/ \E hs \in HandshakeReplies, reply \in ExecuteReplies : ExecuteRequest(hs, reply)

EngineSpec == Init /\ [][EngineNext]_vars

(***************************************************************************)
(* mcp_client.py: the capability mapping the client caches and what its    *)
(* operations hand to the caller, and MCPClient.close (OwnerSpec).  One    *)
(* caller, who keeps every dict it is handed and may assign into it and    *)
(* into every dict reachable from it.                                      *)
(***************************************************************************)
\* The operations one run makes on the client.
MaxOwnerSteps == 4

\* The assignments the caller makes in one run.
MaxMutations == 2

\* The addresses a run can allocate: two dicts by __init__, at most three by an
\* operation.
Addresses == 1..(2 + 3 * MaxOwnerSteps)

\* The keys the caller assigns under.
AssignedKeys == {"tools", "listChanged", "capabilities", "added"}

\* The dict at the address by value: every reference replaced by the dict it
\* refers to.
RECURSIVE Deep(_, _)
Deep(h, a) ==
    [k \in DOMAIN h[a] |-> IF h[a][k].ref = 0 THEN h[a][k] ELSE Deep(h, h[a][k].ref)]

\* The addresses that can be reached from those of the set.
RECURSIVE Reachable(_, _)
Reachable(h, S) ==
    LET next == S \cup UNION {{h[a][k].ref : k \in {j \in DOMAIN h[a] : h[a][j].ref # 0}} : a \in S}
    IN  IF next = S THEN S ELSE Reachable(h, next)

\* supports_capability, the server_capabilities property, get_server_info: what
\* the client reports as the server's capabilities.
Reported == Deep(heap, caps_addr)

\* The results a server answers the initialize request with: one with a
\* capabilities object (which has a nested descriptor), one without; "error": the
\* request fails or is answered with an error.
HandshakeShapes == {"capabilities", "no capabilities", "error"}

\* BaseTransport.is_connected.
LinkIsConnected == link.connected /\ ~link.closed

\* initialize_connection on a client that is not initialized: json.loads has
\* built the response's dicts; _server_capabilities becomes the result's own
\* capabilities dict (a new {} when it has none), and the result is returned.
Handshake(shape) ==
    LET n == Len(heap) IN
    IF ~LinkIsConnected \/ shape = "error"
    THEN [ok |-> FALSE, heap |-> heap, caps |-> caps_addr, result |-> 0, captured |-> captured]
    ELSE IF shape = "capabilities"
    THEN LET h == heap \o << [k \in {"listChanged"} |-> Lit("true")],
                             [k \in {"tools"} |-> Ref(n + 1)],
                             [k \in {"protocolVersion", "capabilities", "serverInfo"} |->
                                  IF k = "capabilities" THEN Ref(n + 2) ELSE Lit("stub")] >>
         IN  [ok |-> TRUE, heap |-> h, caps |-> n + 2, result |-> n + 3,
              captured |-> Captured(Deep(h, n + 2))]
    ELSE LET h == heap \o << EmptyDict,
                             [k \in {"protocolVersion", "serverInfo"} |-> Lit("stub")] >>
         IN  [ok |-> TRUE, heap |-> h, caps |-> n + 1, result |-> n + 2,
              captured |-> Captured(Deep(h, n + 1))]

\* "if not self._initialized: await self.initialize_connection()": the state the
\* operation goes on from.
Ensured(shape) ==
    IF owner_initialized
    THEN [ok |-> TRUE, heap |-> heap, caps |-> caps_addr, result |-> caps_addr,
          captured |-> captured]
    ELSE Handshake(shape)

Returned(name, a) == OwnerStep(name, a, "", NotClosing, "none", "none")

Failed(name, exc) == OwnerStep(name, 0, exc, NotClosing, "none", "none")

\* initialize_connection: "return self._server_capabilities" when initialized,
\* "return result" after a handshake.
OwnerInitialize(shape) ==
    /\ owner_steps < MaxOwnerSteps
    /\ owner_steps' = owner_steps + 1
    /\ LET e == Ensured(shape) IN
       IF ~e.ok
       THEN /\ owner_last' = Failed("initialize_connection", "ConnectionError")
            /\ UNCHANGED <<heap, caps_addr, owner_initialized, handles, captured>>
       ELSE /\ heap' = e.heap
            /\ caps_addr' = e.caps
            /\ captured' = e.captured
            /\ owner_initialized' = TRUE
            /\ handles' = handles \cup {e.result}
            /\ owner_last' = Returned("initialize_connection", e.result)
    /\ UNCHANGED <<link, copies, mutations>>
    /\ UNCHANGED notOwnerVars

ServerInfoEntries(caps) ==
    [k \in {"capabilities", "protocol_version", "initialized", "server_info"} |->
        IF k = "capabilities" THEN Ref(caps) ELSE Lit("stub")]

\* get_server_info: a new dict that holds the cached mapping itself.
OwnerGetServerInfo(shape) ==
    /\ owner_steps < MaxOwnerSteps
    /\ owner_steps' = owner_steps + 1
    /\ LET e == Ensured(shape) IN
       IF ~e.ok
       THEN /\ owner_last' = Failed("get_server_info", "ConnectionError")
            /\ UNCHANGED <<heap, caps_addr, owner_initialized, handles, captured>>
       ELSE /\ heap' = Append(e.heap, ServerInfoEntries(e.caps))
            /\ caps_addr' = e.caps
            /\ captured' = e.captured
            /\ owner_initialized' = TRUE
            /\ handles' = handles \cup {Len(e.heap) + 1}
            /\ owner_last' = Returned("get_server_info", Len(e.heap) + 1)
    /\ UNCHANGED <<link, copies, mutations>>
    /\ UNCHANGED notOwnerVars

NegotiatedEntries(caps) ==
    [k \in {"client_capabilities", "server_capabilities"} |->
        IF k = "server_capabilities" THEN Ref(caps) ELSE Ref(1)]

\* negotiate_capabilities: a new dict that holds the two cached mappings themselves.
OwnerNegotiate(shape) ==
    /\ owner_steps < MaxOwnerSteps
    /\ owner_steps' = owner_steps + 1
    /\ LET e == Ensured(shape) IN
       IF ~e.ok
       THEN /\ owner_last' = Failed("negotiate_capabilities", "ConnectionError")
            /\ UNCHANGED <<heap, caps_addr, owner_initialized, handles, captured>>
       ELSE /\ heap' = Append(e.heap, NegotiatedEntries(e.caps))
            /\ caps_addr' = e.caps
            /\ captured' = e.captured
            /\ owner_initialized' = TRUE
            /\ handles' = handles \cup {Len(e.heap) + 1}
            /\ owner_last' = Returned("negotiate_capabilities", Len(e.heap) + 1)
    /\ UNCHANGED <<link, copies, mutations>>
    /\ UNCHANGED notOwnerVars

\* The server_capabilities property: "self._server_capabilities.copy()", a new
\* dict with the same values under the same keys.
OwnerServerCapabilities ==
    /\ owner_steps < MaxOwnerSteps
    /\ owner_steps' = owner_steps + 1
    /\ heap' = Append(heap, heap[caps_addr])
    /\ handles' = handles \cup {Len(heap) + 1}
    /\ copies' = copies \cup {Len(heap) + 1}
    /\ owner_last' = Returned("server_capabilities", Len(heap) + 1)
    /\ UNCHANGED <<caps_addr, owner_initialized, link, captured, mutations>>
    /\ UNCHANGED notOwnerVars

\* The caller assigns under a key of a dict it was handed, or of a dict it
\* reaches from one: d[k] = "changed".
CallerAssigns(a, k) ==
    /\ mutations < MaxMutations
    /\ mutations' = mutations + 1
    /\ a \in Reachable(heap, handles)
    /\ k \in DOMAIN heap[a] \cup {"added"}
    /\ heap' = [heap EXCEPT ![a] = [x \in DOMAIN heap[a] \cup {k} |->
                                        IF x = k THEN Lit("changed") ELSE heap[a][x]]]
    /\ owner_last' = Returned("assign", a)
    /\ UNCHANGED <<caps_addr, owner_initialized, link, handles, copies, captured, owner_steps>>
    /\ UNCHANGED notOwnerVars

\* MCPClient.close: the goodbye notification when initialized and connected (its
\* failure is passed over), then transport.close, which returns at once on a
\* closed transport and otherwise clears the flags and releases the channel;
\* "self._initialized = False" follows it inside the same try block, whose except
\* clause logs.
OwnerClose(goodbye_fails, close_raises) ==
    /\ owner_steps < MaxOwnerSteps
    /\ owner_steps' = owner_steps + 1
    /\ LET attempted == owner_initialized /\ LinkIsConnected
           goodbye == IF ~attempted THEN "none" ELSE IF goodbye_fails THEN "failed" ELSE "sent"
           raised == ~link.closed /\ close_raises
       IN  /\ link' = [connected |-> FALSE, closed |-> TRUE]
           /\ owner_initialized' = (raised /\ owner_initialized)
           /\ owner_last' = OwnerStep("close", 0, "",
                                      [initialized |-> owner_initialized,
                                       connected |-> LinkIsConnected],
                                      goodbye, IF raised THEN "raised" ELSE "returned")
    /\ UNCHANGED <<heap, caps_addr, handles, copies, captured, mutations>>
    /\ UNCHANGED notOwnerVars

OwnerNext ==
    \/ \E shape \in HandshakeShapes : OwnerInitialize(shape)
    \/ \E shape \in HandshakeShapes : OwnerGetServerInfo(shape)
    \/ \E shape \in HandshakeShapes : OwnerNegotiate(shape)
    \/ OwnerServerCapabilities
    \/ \E a \in Addresses, k \in AssignedKeys : CallerAssigns(a, k)
    \/ \E goodbye_fails \in BOOLEAN, close_raises \in BOOLEAN :
           OwnerClose(goodbye_fails, close_raises)

OwnerSpec == Init /\ [][OwnerNext]_vars

(***************************************************************************)
(* The authentication provider (auth.py): AuthManager.get_auth_headers on  *)
(* an endpoint, an API key, an auth header and an environment.  Strings    *)
(* are strings; startswith, strip, replace and upper work on their         *)
(* characters.                                                             *)
(***************************************************************************)
\* str.startswith.
StartsWith(s, prefix) == Len(prefix) <= Len(s) /\ SubSeq(s, 1, Len(prefix)) = prefix

\* str.strip for strings whose only whitespace is the space.
Strip(s) ==
    LET inked == {i \in 1..Len(s) : SubSeq(s, i, i) # " "}
    IN  IF inked = {} THEN ""
        ELSE SubSeq(s, CHOOSE i \in inked : \A j \in inked : i <= j,
                       CHOOSE i \in inked : \A j \in inked : j <= i)

\* urlparse(endpoint).hostname for an endpoint of the form scheme://host,
\* scheme://host:port or scheme://host/path: what follows "://" up to the first
\* ":" or "/", in lower case (the hosts here are written in lower case).
Hostname(endpoint) ==
    LET start == (CHOOSE i \in 1..Len(endpoint) : SubSeq(endpoint, i, i + 2) = "://") + 3
        stops == {i \in start..Len(endpoint) : SubSeq(endpoint, i, i) \in {":", "/"}}
        stop  == IF stops = {} THEN Len(endpoint) + 1
                 ELSE CHOOSE i \in stops : \A j \in stops : i <= j
    IN  SubSeq(endpoint, start, stop - 1)

\* c.replace('.', '_').replace('-', '_').upper() for one character.
EnvChar(c) ==
    CASE c \in {".", "-"} -> "_"
      [] c = "a" -> "A" [] c = "c" -> "C" [] c = "e" -> "E" [] c = "h" -> "H"
      [] c = "i" -> "I" [] c = "l" -> "L" [] c = "m" -> "M" [] c = "o" -> "O"
      [] c = "p" -> "P" [] c = "s" -> "S" [] c = "t" -> "T" [] c = "x" -> "X"
      [] c = "y" -> "Y" [] OTHER -> c

RECURSIVE EnvName(_)
EnvName(hostname) ==
    IF hostname = "" THEN ""
    ELSE EnvChar(SubSeq(hostname, 1, 1)) \o EnvName(SubSeq(hostname, 2, Len(hostname)))

\* _get_endpoint_env_key: None for an endpoint that is no URL or has no host.
GetEndpointEnvKey(endpoint) ==
    IF ~(StartsWith(endpoint, "http://") \/ StartsWith(endpoint, "https://")) THEN None
    ELSE IF Hostname(endpoint) = "" THEN None
    ELSE Some("MCPEEK_" \o EnvName(Hostname(endpoint)) \o "_KEY")

\* os.getenv(key_name).
Getenv(environ, key_name) ==
    IF key_name \in DOMAIN environ THEN Some(environ[key_name]) ELSE None

\* load_api_key: the stripped value of a variable that is set and not empty.
LoadApiKey(environ, key_name) ==
    IF Truthy(Getenv(environ, key_name)) THEN Some(Strip(Getenv(environ, key_name).str))
    ELSE None

\* headers["Authorization"] = value; return headers.
Authorization(value) == {<<"Authorization", value>>}

\* get_auth_headers, in the order of its statements.
GetAuthHeaders(endpoint, api_key, auth_header, environ) ==
    LET env_api_key == LoadApiKey(environ, "MCPEEK_API_KEY")
        env_key == GetEndpointEnvKey(endpoint)
        endpoint_api_key == IF Truthy(env_key) THEN LoadApiKey(environ, env_key.str) ELSE None
    IN  IF Truthy(auth_header)
        THEN IF StartsWith(auth_header.str, "Bearer ") \/ StartsWith(auth_header.str, "Basic ")
             THEN Authorization(auth_header.str)
             ELSE Authorization("Bearer " \o auth_header.str)
        ELSE IF Truthy(api_key) THEN Authorization("Bearer " \o api_key.str)
        ELSE IF Truthy(env_api_key) THEN Authorization("Bearer " \o env_api_key.str)
        ELSE IF Truthy(endpoint_api_key) THEN Authorization("Bearer " \o endpoint_api_key.str)
        ELSE {}

\* The endpoints: URLs with a path, with a port and with a one-word host (whose
\* variable is MCPEEK_API_KEY itself), a program, and a command line.
AuthEndpoints ==
    {"http://api.example.com/mcp", "https://my-host:8443", "http://api", "./server",
     "python server.py"}

\* --api-key and --auth-header: not given, empty, or given.
ApiKeys == {None, Some(""), Some("k")}

AuthHeaderValues == {None, Some(""), Some("Bearer t"), Some("Basic b"), Some("tok")}

\* os.environ: MCPEEK_API_KEY unset, empty, blank or set, and the variables of
\* the two hosts unset or set.
Environments ==
    { [n \in (IF g.some THEN {"MCPEEK_API_KEY"} ELSE {})
              \cup (IF e THEN {"MCPEEK_API_EXAMPLE_COM_KEY"} ELSE {})
              \cup (IF h THEN {"MCPEEK_MY_HOST_KEY"} ELSE {}) |->
          CASE n = "MCPEEK_API_KEY" -> g.str
            [] n = "MCPEEK_API_EXAMPLE_COM_KEY" -> "s"
            [] OTHER -> " h "] :
        g \in {None, Some(""), Some(" "), Some("g")}, e \in BOOLEAN, h \in BOOLEAN }

\* get_auth_headers(endpoint, api_key, auth_header) is called with os.environ
\* being environ.
GetAuthHeadersCall(endpoint, api_key, auth_header, environ) ==
    /\ auth_args' = [called |-> TRUE, endpoint |-> endpoint, api_key |-> api_key,
                     auth_header |-> auth_header, environ |-> environ]
    /\ auth_headers' = GetAuthHeaders(endpoint, api_key, auth_header, environ)
    /\ UNCHANGED notAuthVars

AuthNext ==
    \E endpoint \in AuthEndpoints, api_key \in ApiKeys, auth_header \in AuthHeaderValues,
       environ \in Environments :
        GetAuthHeadersCall(endpoint, api_key, auth_header, environ)

AuthSpec == Init /\ [][AuthNext]_vars

(***************************************************************************)
(* A command of the CLI (cli.py, config.py): parse_arguments validates the *)
(* Namespace, and execute_command loads the configuration, connects the    *)
(* transport, invokes the engine operation of the mode and closes the      *)
(* client.  The engines and the transport are the environment: connect()   *)
(* succeeds or fails, an operation returns or raises.                      *)
(***************************************************************************)
\* bool(v).
IsTrue(v) ==
    CASE v.t = "none" -> FALSE
      [] v.t = "bool" -> v.b
      [] v.t = "str" -> v.s # ""
      [] OTHER -> v.n # 0

\* d.get(key).
DictGet(d, key) == IF key \in DOMAIN d THEN d[key] ELSE PyNone

\* merge_dicts: dict1.copy() updated with dict2.
MergeDicts(dict1, dict2) ==
    [k \in DOMAIN dict1 \cup DOMAIN dict2 |-> IF k \in DOMAIN dict2 THEN dict2[k] ELSE dict1[k]]

\* validate_arguments: "accepted" when it returns, else the message of the
\* ValidationError it raises.  It reads endpoint, the four modes, stdin, input
\* and verbosity, and no other attribute.
ValidateArguments(args) ==
    LET execution_modes == <<args["discover"], args["tool"], args["resource"], args["prompt"]>>
        given == {i \in DOMAIN execution_modes : IsTrue(execution_modes[i])}
    IN  IF ~IsTrue(args["endpoint"]) THEN "Endpoint is required"
        ELSE IF given = {}
        THEN "Must specify either --discover, --tool, --resource, or --prompt"
        ELSE IF Cardinality(given) > 1
        THEN "Cannot specify multiple execution modes simultaneously"
        ELSE IF IsTrue(args["stdin"]) /\ IsTrue(args["input"])
        THEN "Cannot specify both --stdin and --input"
        ELSE IF args["verbosity"].n > 3 THEN "Maximum verbosity level is 3 (-vvv)"
        ELSE "accepted"

\* _get_default_config.
DefaultConfig ==
    [verbosity |-> PyInt(0), format |-> PyStr("table"), timeout |-> PyInt(30),
     log_level |-> PyStr("INFO"), discover |-> PyBool(FALSE), tool_tickle |-> PyBool(FALSE),
     stdin |-> PyBool(FALSE)]

\* _load_env_config: the variables that are set and not empty, under their
\* configuration keys (MCPEEK_TIMEOUT, which it converts to a float, is not
\* set in the environments here).
EnvMappings ==
    [MCPEEK_ENDPOINT |-> "endpoint", MCPEEK_FORMAT |-> "format",
     MCPEEK_LOG_LEVEL |-> "log_level", MCPEEK_API_KEY |-> "api_key"]

LoadEnvConfig(environ) ==
    LET present == {v \in DOMAIN EnvMappings : v \in DOMAIN environ /\ environ[v] # ""}
    IN  [k \in {EnvMappings[v] : v \in present} |->
            PyStr(environ[CHOOSE v \in present : EnvMappings[v] = k])]

\* _args_to_config: arg_mappings, and the attributes of the Namespace that
\* exist and are not None.
ArgMappings ==
    {"endpoint", "discover", "tool_tickle", "tool", "resource", "input", "stdin", "format",
     "verbosity", "api_key", "auth_header", "timeout", "log_level"}

ArgsToConfig(args) ==
    [k \in {name \in ArgMappings : name \in DOMAIN args /\ args[name].t # "none"} |-> args[k]]

\* validate_config: "valid" when it returns, else the message of its
\* ValidationError.  parse_endpoint_url says http for a URL, whose host must
\* not be empty.
ValidateConfig(config) ==
    LET endpoint == DictGet(config, "endpoint")
        is_http == StartsWith(endpoint.s, "http://") \/ StartsWith(endpoint.s, "https://")
        verbosity == DictGet(config, "verbosity")
        timeout == DictGet(config, "timeout")
    IN  IF ~IsTrue(endpoint) THEN "Endpoint is required"
        ELSE IF is_http /\ Hostname(endpoint.s) = "" THEN "Invalid HTTP endpoint URL"
        ELSE IF verbosity.t # "int" \/ verbosity.n < 0 \/ verbosity.n > 3
        THEN "Verbosity must be an integer between 0 and 3"
        ELSE IF timeout.t # "int" \/ timeout.n <= 0 THEN "Timeout must be a positive number"
        ELSE IF DictGet(config, "format").s \notin {"json", "table"}
        THEN "Format must be 'json' or 'table'"
        ELSE IF DictGet(config, "log_level").s \notin {"DEBUG", "INFO", "WARNING", "ERROR"}
        THEN "Log level must be one of: DEBUG, INFO, WARNING, ERROR"
        ELSE "valid"

\* load_config before its validation: defaults, then environment, then CLI.
LoadConfig(args, environ) ==
    MergeDicts(MergeDicts(DefaultConfig, LoadEnvConfig(environ)), ArgsToConfig(args))

\* execute_command's if/elif chain over the configuration: the engine
\* operation it invokes, "none" when it reaches the else branch.
Dispatch(config) ==
    IF IsTrue(DictGet(config, "discover")) THEN "discover_endpoint"
    ELSE IF IsTrue(DictGet(config, "tool")) THEN "execute_tool"
    ELSE IF IsTrue(DictGet(config, "resource")) THEN "read_resource"
    ELSE IF IsTrue(DictGet(config, "prompt")) THEN "get_prompt"
    ELSE "none"

\* The Namespaces validation is called on: what the parser produces for a
\* command line (it has no tool_tickle attribute), and Namespaces built by hand
\* with tool_tickle set.
Namespaces ==
    { MergeDicts([endpoint |-> e, discover |-> PyBool(d), tool |-> t, resource |-> r,
                  prompt |-> p, stdin |-> PyBool(s), input |-> i, verbosity |-> PyInt(v),
                  format |-> PyStr("table"), api_key |-> PyNone, auth_header |-> PyNone,
                  timeout |-> PyInt(30), log_level |-> PyStr("INFO")],
                 IF k = "absent" THEN NoAttributes ELSE [tool_tickle |-> PyBool(k = "True")]) :
        e \in {PyNone, PyStr("http://test"), PyStr("http://"), PyStr("./server")},
        d \in BOOLEAN, k \in {"absent", "False", "True"},
        t \in {PyNone, PyStr("echo")}, r \in {PyNone, PyStr("file:///a")},
        p \in {PyNone, PyStr("greet")}, s \in BOOLEAN, i \in {PyNone, PyStr("{}")},
        v \in {0, 1, 4} }

\* os.environ when the configuration is loaded.
CommandEnvironments == {[n \in {} |-> ""], [MCPEEK_API_KEY |-> "g"]}

\* How the invoked engine operation ends.
EngineEnds == {"returns", "MCPeekException", "Exception"}

\* parse_arguments, once in a process: validate_arguments(args) returns or
\* raises.
ValidateArgumentsCall(args) ==
    /\ cli_verdict = "none"
    /\ cli_args' = args
    /\ cli_verdict' = ValidateArguments(args)
    /\ cli_run' = NoCommandRun
    /\ UNCHANGED notCliVars

\* __main__: execute_command(args) with the Namespace parse_arguments returned.
\* Every exception ends in one of the outer handlers, which return 1; the
\* client exists, and is closed in the finally block, only once
\* _create_transport has returned.
ExecuteCommand(environ, connects, ends) ==
    /\ cli_verdict = "accepted"
    /\ ~cli_run.ran
    /\ LET config == LoadConfig(cli_args, environ)
           operation == Dispatch(config)
       IN  cli_run' =
             IF ValidateConfig(config) # "valid"
             THEN CommandRun(config, FALSE, "none",
                             "ValidationError: " \o ValidateConfig(config), FALSE, 1)
             ELSE IF ~connects
             THEN CommandRun(config, FALSE, "none", "ConnectionError", FALSE, 1)
             ELSE IF operation = "none"
             THEN CommandRun(config, TRUE, "none",
                             "ValidationError: No valid operation specified", TRUE, 1)
             ELSE IF ends = "returns" THEN CommandRun(config, TRUE, operation, "", TRUE, 0)
             ELSE CommandRun(config, TRUE, operation, ends, TRUE, 1)
    /\ UNCHANGED <<cli_args, cli_verdict>>
    /\ UNCHANGED notCliVars

CliNext ==
    \/ \E args \in Namespaces : ValidateArgumentsCall(args)
    \/ \E environ \in CommandEnvironments, connects \in BOOLEAN, ends \in EngineEnds :
          ExecuteCommand(environ, connects, ends)

CliSpec == Init /\ [][CliNext]_vars

(***************************************************************************)
(* The creation of a transport (cli.py _create_transport, transports/      *)
(* stdio.py from_command_string and connect, utils/helpers.py              *)
(* sanitize_file_path).  Paths and command lines are strings, split and    *)
(* normalized character by character.                                      *)
(***************************************************************************)
\* ' ' in s.
HasSpace(s) == \E i \in 1..Len(s) : SubSeq(s, i, i) = " "

\* s.split(c).
RECURSIVE SplitOn(_, _)
SplitOn(s, c) ==
    LET hits == {i \in 1..Len(s) : SubSeq(s, i, i) = c}
        first == CHOOSE i \in hits : \A j \in hits : i <= j
    IN  IF hits = {} THEN <<s>>
        ELSE <<SubSeq(s, 1, first - 1)>> \o SplitOn(SubSeq(s, first + 1, Len(s)), c)

\* c.join(parts).
RECURSIVE JoinWith(_, _)
JoinWith(parts, c) ==
    IF parts = <<>> THEN ""
    ELSE IF Len(parts) = 1 THEN parts[1]
    ELSE parts[1] \o c \o JoinWith(Tail(parts), c)

\* shlex.split for a command line whose only special characters are the space
\* and the single quote: the loop over the characters, with the token read so
\* far, whether a token has begun, and whether a quote is open.
RECURSIVE ShlexFrom(_, _, _, _, _)
ShlexFrom(s, token, begun, quoted, tokens) ==
    IF s = "" THEN (IF begun THEN Append(tokens, token) ELSE tokens)
    ELSE LET c == SubSeq(s, 1, 1)
             rest == SubSeq(s, 2, Len(s))
         IN  IF quoted
             THEN IF c = "'" THEN ShlexFrom(rest, token, TRUE, FALSE, tokens)
                  ELSE ShlexFrom(rest, token \o c, TRUE, TRUE, tokens)
             ELSE IF c = "'" THEN ShlexFrom(rest, token, TRUE, TRUE, tokens)
             ELSE IF c = " "
             THEN ShlexFrom(rest, "", FALSE, FALSE,
                            IF begun THEN Append(tokens, token) ELSE tokens)
             ELSE ShlexFrom(rest, token \o c, TRUE, FALSE, tokens)

ShlexSplit(command_str) == ShlexFrom(command_str, "", FALSE, FALSE, <<>>)

\* posixpath.normpath's loop over the components: "" and "." are skipped, ".."
\* removes the component before it unless there is none (kept in a relative
\* path, dropped in an absolute one) or it is ".." itself.
RECURSIVE NormComps(_, _, _)
NormComps(comps, new_comps, initial_slash) ==
    IF comps = <<>> THEN new_comps
    ELSE LET comp == Head(comps)
         IN  IF comp \in {"", "."} THEN NormComps(Tail(comps), new_comps, initial_slash)
             ELSE IF \/ comp # ".."
                     \/ (~initial_slash /\ new_comps = <<>>)
                     \/ (new_comps # <<>> /\ new_comps[Len(new_comps)] = "..")
             THEN NormComps(Tail(comps), Append(new_comps, comp), initial_slash)
             ELSE IF new_comps # <<>>
             THEN NormComps(Tail(comps), SubSeq(new_comps, 1, Len(new_comps) - 1),
                            initial_slash)
             ELSE NormComps(Tail(comps), new_comps, initial_slash)

\* os.path.normpath (for paths that do not begin with two slashes).
Normpath(path) ==
    LET initial_slash == StartsWith(path, "/")
        joined == JoinWith(NormComps(SplitOn(path, "/"), <<>>, initial_slash), "/")
        whole == IF initial_slash THEN "/" \o joined ELSE joined
    IN  IF path = "" \/ whole = "" THEN "." ELSE whole

\* sanitize_file_path: the normalized path, or ValidationError.
SanitizeFilePath(file_path) ==
    IF StartsWith(Normpath(file_path), "..")
    THEN [raised |-> "ValidationError", path |-> ""]
    ELSE [raised |-> "", path |-> Normpath(file_path)]

\* from_command_string: the command of the transport, or the exception.
FromCommandString(command_str) ==
    LET command_parts == ShlexSplit(command_str)
        sanitized == SanitizeFilePath(command_parts[1])
    IN  IF command_parts = <<>> THEN [raised |-> "", command |-> <<>>]
        ELSE IF sanitized.raised # "" THEN [raised |-> sanitized.raised, command |-> <<>>]
        ELSE [raised |-> "", command |-> <<sanitized.path>> \o Tail(command_parts)]

\* _create_transport's choice for an endpoint that is no URL: the transport's
\* command, or the exception raised while building it.
StdioCommand(endpoint) ==
    IF HasSpace(endpoint) THEN FromCommandString(endpoint)
    ELSE [raised |-> "", command |-> <<endpoint>>]

\* The executables of the endpoints, and what follows them on the command line.
ExecutablePaths ==
    {"server", "./server", "../server", "../../bin/tool", "bin/../../tool", "a/../../b",
     "bin/../server", "a/b/../../..", "..", "./..", "..hidden", "bin//tool",
     "/usr/bin/python3", "/../etc/x", "'../my tools/run'", "'my tools/run'",
     "tools/../../x", "./a/./b"}

ArgumentLists == {"", " server.py", " --port 1", " -m 'my server'"}

\* The endpoints _create_transport is called with: every executable with every
\* argument list (a quoted executable needs the quotes to be one token), and a
\* URL.
SpawnEndpoints ==
    {path \o arguments : path \in ExecutablePaths, arguments \in ArgumentLists}
    \cup {"http://test"}

\* _create_transport(config) with config['endpoint'] = endpoint, up to the
\* return of transport.connect(): for a process transport connect() runs
\* create_subprocess_exec(*command), which starts the process or fails
\* (ConnectionError).  An HTTP transport starts no process.
CreateTransport(endpoint, starts) ==
    /\ spawn' =
         IF StartsWith(endpoint, "http://") \/ StartsWith(endpoint, "https://")
         THEN [called |-> TRUE, endpoint |-> endpoint, raised |-> "", spawned |-> <<>>]
         ELSE IF StdioCommand(endpoint).raised # ""
         THEN [called |-> TRUE, endpoint |-> endpoint,
               raised |-> StdioCommand(endpoint).raised, spawned |-> <<>>]
         ELSE IF ~starts \/ StdioCommand(endpoint).command = <<>>
         THEN [called |-> TRUE, endpoint |-> endpoint, raised |-> "ConnectionError",
               spawned |-> <<>>]
         ELSE [called |-> TRUE, endpoint |-> endpoint, raised |-> "",
               spawned |-> StdioCommand(endpoint).command]
    /\ UNCHANGED notSpawnVars

SpawnNext == \E endpoint \in SpawnEndpoints, starts \in BOOLEAN : CreateTransport(endpoint, starts)

SpawnSpec == Init /\ [][SpawnNext]_vars

(***************************************************************************)
(* The projection of a listed record into a descriptor (discovery.py       *)
(* _process_tool_data, _process_resource_data, _process_prompt_data) by a  *)
(* DiscoveryEngine created with a verbosity.                               *)
(***************************************************************************)
\* validate_verbosity_level.
ValidateVerbosityLevel(level) == IF level < 0 THEN 0 ELSE IF level > 3 THEN 3 ELSE level

\* if self.verbosity >= 1: the parameters are included.
IncludesParameters(verbosity) == verbosity >= 1

\* if self.verbosity >= 3: the full schema, or the metadata, is included.
IncludesSchema_Always(verbosity) == TRUE

IncludesSchema(verbosity) == verbosity >= 3

\* {k: v for k, v in d.items() if k not in keys}.
Without(d, keys) == {e \in d : Len(e[1]) = 0 \/ e[1][1] \notin keys}

\* {arg.get("name", f"arg_{i}"): arg for i, arg in enumerate(arguments)}: a later
\* argument of the same name replaces an earlier one.  The items of a list are
\* numbered from "1" here, enumerate counts from 0.
ArgumentsByName(arguments) ==
    LET indices == {i \in 1..Cardinality(Keys(arguments)) : Has(arguments, ToString(i))}
        name_of(i) == StrOf(GetOr(Get(arguments, ToString(i)), "name",
                              JStr("arg_" \o ToString(i - 1))))
        latest(k) == CHOOSE i \in indices : name_of(i) = k /\ \A j \in indices : name_of(j) = k => j <= i
    IN  JObj([k \in {name_of(i) : i \in indices} |-> Get(arguments, ToString(latest(k)))])

\* _process_tool_data with self.verbosity = verbosity.
ProcessToolData(verbosity, tool_data) ==
    LET input_schema == GetOr(tool_data, "inputSchema", JEmptyObj)
    IN  Descriptor("tool", GetOr(tool_data, "name", JStr("unknown")), JAbsent,
                   GetOr(tool_data, "description", JStr("")), JAbsent,
                   IF IncludesParameters(verbosity) /\ Has(input_schema, "properties")
                   THEN Get(input_schema, "properties") ELSE JEmptyObj,
                   IF IncludesSchema(verbosity) THEN input_schema ELSE JEmptyObj,
                   JAbsent)

\* _process_resource_data.
ProcessResourceData(verbosity, resource_data) ==
    Descriptor("resource", GetOr(resource_data, "name", JStr("")),
               GetOr(resource_data, "uri", JStr("")),
               GetOr(resource_data, "description", JStr("")),
               GetOr(resource_data, "mimeType", JStr("")), JAbsent, JAbsent,
               IF IncludesSchema(verbosity)
               THEN Without(resource_data, {"uri", "name", "description", "mimeType"})
               ELSE JEmptyObj)

\* _process_prompt_data.
ProcessPromptData(verbosity, prompt_data) ==
    LET arguments_schema == GetOr(prompt_data, "arguments", JEmptyObj)
    IN  Descriptor("prompt", GetOr(prompt_data, "name", JStr("unknown")), JAbsent,
                   GetOr(prompt_data, "description", JStr("")), JAbsent,
                   IF ~IncludesParameters(verbosity) THEN JEmptyObj
                   ELSE IF TypeOf(arguments_schema) = "list"
                   THEN ArgumentsByName(arguments_schema)
                   ELSE IF IsDict(arguments_schema) /\ Has(arguments_schema, "properties")
                   THEN Get(arguments_schema, "properties")
                   ELSE JEmptyObj,
                   IF IncludesSchema(verbosity) THEN arguments_schema ELSE JEmptyObj,
                   JAbsent)

\* The verbosity a DiscoveryEngine is created with: the levels, one below and
\* one above.
Verbosities == {-1, 0, 1, 2, 3, 4}

\* A JSON schema with two properties.
PathSchema ==
    JObj([type |-> JStr("object"),
          properties |-> JObj([path |-> JObj([type |-> JStr("string")]),
                               depth |-> JObj([type |-> JStr("integer")])]),
          required |-> JList(<<JStr("path")>>)])

\* The records a server lists: a tool with or without name, description and
\* inputSchema (empty, or with properties); a resource with or without name,
\* description, mimeType and a further key; a prompt with or without name and
\* description, whose arguments are missing, a list (one argument nameless) or
\* a schema.
RawTools ==
    {Put(Put(Put(JEmptyObj, "name", n), "description", d), "inputSchema", s) :
        n \in {JAbsent, JStr("list_files")}, d \in {JAbsent, JStr("Lists files")},
        s \in {JAbsent, JEmptyObj, PathSchema}}

RawResources ==
    {Put(Put(Put(Put(JObj([uri |-> JStr("file:///a")]), "name", n), "description", d),
             "mimeType", m), "size", x) :
        n \in {JAbsent, JStr("a")}, d \in {JAbsent, JStr("A file")},
        m \in {JAbsent, JStr("text/plain")}, x \in {JAbsent, JNum(12)}}

RawPrompts ==
    {Put(Put(Put(JEmptyObj, "name", n), "description", d), "arguments", a) :
        n \in {JAbsent, JStr("greet")}, d \in {JAbsent, JStr("Greets")},
        a \in {JAbsent, PathSchema,
               JList(<<JObj([name |-> JStr("who"), required |-> JFalse]),
                       JObj([description |-> JStr("tone")])>>)}}

\* A DiscoveryEngine created with the verbosity processes a listed tool.
ProcessTool(verbosity, tool_data) ==
    /\ raw_record' = [called |-> TRUE, kind |-> "tool", verbosity |-> verbosity,
                      data |-> tool_data]
    /\ descriptor' = ProcessToolData(ValidateVerbosityLevel(verbosity), tool_data)
    /\ UNCHANGED notDescriptorVars

ProcessResource(verbosity, resource_data) ==
    /\ raw_record' = [called |-> TRUE, kind |-> "resource", verbosity |-> verbosity,
                      data |-> resource_data]
    /\ descriptor' = ProcessResourceData(ValidateVerbosityLevel(verbosity), resource_data)
    /\ UNCHANGED notDescriptorVars

ProcessPrompt(verbosity, prompt_data) ==
    /\ raw_record' = [called |-> TRUE, kind |-> "prompt", verbosity |-> verbosity,
                      data |-> prompt_data]
    /\ descriptor' = ProcessPromptData(ValidateVerbosityLevel(verbosity), prompt_data)
    /\ UNCHANGED notDescriptorVars

DescriptorNext ==
    \/ \E verbosity \in Verbosities, tool_data \in RawTools : ProcessTool(verbosity, tool_data)
    \/ \E verbosity \in Verbosities, resource_data \in RawResources :
          ProcessResource(verbosity, resource_data)
    \/ \E verbosity \in Verbosities, prompt_data \in RawPrompts :
          ProcessPrompt(verbosity, prompt_data)

DescriptorSpec == Init /\ [][DescriptorNext]_vars

(***************************************************************************)
(* A command of the CLI on a process transport, and the shutdown of the    *)
(* transport step by step (ShutdownSpec).  execute_command runs the        *)
(* operation inside try ... finally: await client.close(); the client says *)
(* goodbye and closes the transport; the transport's _cleanup cancels the  *)
(* reader, closes the child's input, terminates the child, waits and       *)
(* kills.  The child is a process of its own: it may exit at any moment.   *)
(***************************************************************************)
\* The ways the operation of a command ends: it returns, it raises, or the
\* caller interrupts it (asyncio cancels the main task, CancelledError is
\* raised at the await in flight).
Endings == {"success", "error", "interrupt"}

\* The exit code of the command: 0 after print(output), 1 from the except
\* clauses, 130 when the interrupt reaches main().
ExitCode(ending) ==
    IF ending = "success" THEN 0 ELSE IF ending = "error" THEN 1 ELSE 130

\* The first request of the operation connects the transport: connect()
\* starts the child and the reader task, or fails, runs _cleanup (nothing to
\* clean) and raises ConnectionError, which ends the operation.
CommandConnect(starts) ==
    /\ shutdown.pc = "start"
    /\ shutdown' =
         IF starts
         THEN [shutdown EXCEPT !.pc = "operation", !.connected = TRUE, !.process = TRUE,
                               !.read_task = "running", !.child = "running"]
         ELSE [shutdown EXCEPT !.pc = "finally", !.ending = "error"]
    /\ UNCHANGED notShutdownVars

\* The handshake succeeds: the client is initialized.
CommandHandshake ==
    /\ shutdown.pc = "operation"
    /\ shutdown.child = "running"
    /\ ~shutdown.initialized
    /\ shutdown' = [shutdown EXCEPT !.initialized = TRUE]
    /\ UNCHANGED notShutdownVars

\* The child exits by itself (its input reached end of file, it crashed, it
\* obeyed a signal late): its output ends, readline() returns nothing and the
\* reader leaves its loop.
ChildProcessExits ==
    /\ shutdown.child = "running"
    /\ shutdown' = [shutdown EXCEPT !.child = "exited",
                      !.read_task = IF @ = "running" THEN "done" ELSE @]
    /\ UNCHANGED notShutdownVars

\* The operation ends with a request in flight or none: the finally clause
\* of execute_command is entered.
OperationEnds(ending) ==
    /\ shutdown.pc = "operation"
    /\ shutdown' = [shutdown EXCEPT !.pc = "finally", !.ending = ending]
    /\ UNCHANGED notShutdownVars

\* MCPClient.close() and STDIOTransport.close() up to _cleanup: the goodbye
\* notification is sent when the client is initialized and the transport
\* connected, its failure is ignored; the transport then sets its flags.
ClientCloseBegins(goodbye_fails) ==
    /\ shutdown.pc = "finally"
    /\ ~shutdown.closed
    /\ goodbye_fails => (shutdown.initialized /\ shutdown.connected)
    /\ shutdown' = [shutdown EXCEPT !.pc = "cancel_reader", !.connected = FALSE,
                                    !.closed = TRUE]
    /\ UNCHANGED notShutdownVars

\* _cleanup, first block: a reader that is not done is cancelled and awaited.
\* Without a process the second block is skipped.
CancelReadTask ==
    /\ shutdown.pc = "cancel_reader"
    /\ shutdown' =
         [shutdown EXCEPT
            !.pc = IF shutdown.process THEN "close_stdin" ELSE "return",
            !.read_task = IF @ = "running" THEN "cancelled" ELSE @,
            !.steps = IF shutdown.read_task = "running"
                      THEN Append(@, "cancel_reader") ELSE @]
    /\ UNCHANGED notShutdownVars

\* _cleanup: stdin.close() and wait_closed().  When they raise, the except
\* clause logs and the finally clause is next.
CloseStdin(raises) ==
    /\ shutdown.pc = "close_stdin"
    /\ shutdown' =
         [shutdown EXCEPT
            !.pc = IF raises THEN "clear_process" ELSE "terminate",
            !.stdin_raised = raises,
            !.steps = Append(@, "close_stdin")]
    /\ UNCHANGED notShutdownVars

\* _cleanup: process.terminate().  On a child whose exit the event loop has
\* already seen it raises ProcessLookupError, which the except clause logs.
Terminate(exit_seen) ==
    /\ shutdown.pc = "terminate"
    /\ exit_seen => shutdown.child = "exited"
    /\ shutdown' =
         [shutdown EXCEPT
            !.pc = IF exit_seen THEN "clear_process" ELSE "wait",
            !.lookup_error = exit_seen,
            !.steps = Append(@, "terminate")]
    /\ UNCHANGED notShutdownVars

\* _cleanup: wait_for(process.wait(), 5.0).  The child has exited, or exits
\* within the grace period, or the period expires with the child alive.
WaitForExit(obeys) ==
    /\ shutdown.pc = "wait"
    /\ shutdown' =
         IF shutdown.child = "exited" \/ obeys
         THEN [shutdown EXCEPT !.pc = "clear_process", !.child = "exited",
                               !.steps = Append(@, "wait")]
         ELSE [shutdown EXCEPT !.pc = "kill", !.grace_expired = TRUE,
                               !.steps = Append(@, "wait")]
    /\ UNCHANGED notShutdownVars

\* _cleanup: process.kill() and process.wait() after the timeout.
Kill ==
    /\ shutdown.pc = "kill"
    /\ shutdown' = [shutdown EXCEPT !.pc = "clear_process", !.child = "exited",
                                    !.steps = Append(@, "kill")]
    /\ UNCHANGED notShutdownVars

\* _cleanup, finally clause: the handle is dropped.
ClearProcess ==
    /\ shutdown.pc = "clear_process"
    /\ shutdown' = [shutdown EXCEPT !.pc = "return", !.process = FALSE]
    /\ UNCHANGED notShutdownVars

\* client.close() has returned: the command returns its exit code.
CommandReturns ==
    /\ shutdown.pc = "return"
    /\ shutdown' = [shutdown EXCEPT !.pc = "returned",
                                    !.exit = ExitCode(shutdown.ending)]
    /\ UNCHANGED notShutdownVars

ShutdownNext ==
    \/ \E starts \in BOOLEAN : CommandConnect(starts)
    \/ CommandHandshake
    \/ ChildProcessExits
    \/ \E ending \in Endings : OperationEnds(ending)
    \/ \E goodbye_fails \in BOOLEAN : ClientCloseBegins(goodbye_fails)
    \/ CancelReadTask
    \/ \E raises \in BOOLEAN : CloseStdin(raises)
    \/ \E exit_seen \in BOOLEAN : Terminate(exit_seen)
    \/ \E obeys \in BOOLEAN : WaitForExit(obeys)
    \/ Kill
    \/ ClearProcess
    \/ CommandReturns

ShutdownSpec == Init /\ [][ShutdownNext]_vars

(***************************************************************************)
(* Properties.                                                             *)
(***************************************************************************)
\* The requests written to the child so far: their positions in stdin.
RequestsSent == {i \in DOMAIN stdin : Has(stdin[i], "id")}

\* The task's operation ended with the exception of a failed handshake.
HandshakeRaised(t) == outcome[t].kind = "raise" /\ outcome[t].stage = "handshake"

\* C1: whenever send_request returns a response to its caller, the id of that
\* response is the id of the request this call wrote; a message of another id
\* (or of no id) that is in the queue is never returned as this call's response.
C1_ResponseIdIsRequestId ==
    \A t \in Tasks :
        response[t] # JAbsent =>
            Has(response[t], "id") /\ Get(response[t], "id") = request_id[t]

\* C2: the requests a client sends on one connection carry pairwise distinct
\* ids, whatever the time between the creation of two of them.
C2_RequestIdsDistinct ==
    \A i, j \in RequestsSent : i # j => Get(stdin[i], "id") # Get(stdin[j], "id")

\* The positions of stdin that hold the initialized notification.
NotificationsSent == {i \in DOMAIN stdin : MethodOf(stdin[i]) = "notifications/initialized"}

\* What an operation that performs the handshake writes, in order.
WithHandshake(o) == <<"initialize", "notifications/initialized", Method(o)>>

IsPrefix(s, u) == Len(s) <= Len(u) /\ \A k \in DOMAIN s : s[k] = u[k]

\* C3: no request of a method other than initialize is written before the client
\* has received a successful initialize result and written the initialized
\* notification; an operation called on a client that is not initialized writes
\* the handshake first, and writes nothing else when the handshake fails.
C3_HandshakeBeforeRpc ==
    /\ \A i \in DOMAIN stdin :
          MethodOf(stdin[i]) \in GuardedMethods =>
              /\ "init_result" \in history
              /\ \E j \in NotificationsSent : j < i
    /\ \A t \in Tasks :
          op[t] \in RpcOps =>
              \/ IsPrefix(sent[t], WithHandshake(op[t]))
              \/ sent[t] = <<Method(op[t])>> /\ "initialize_ok" \in history
    /\ \A t \in Tasks :
          op[t] \in RpcOps /\ HandshakeRaised(t) =>
              \A k \in DOMAIN sent[t] : sent[t][k] \notin GuardedMethods

\* An operation on a client that was not initialized has performed the handshake
\* and then received the result of its own request, while the handshake of
\* another operation has failed.
C3_Witness ==
    \E t, u \in Tasks :
        /\ op[t] \in RpcOps /\ sent[t] = WithHandshake(op[t])
        /\ outcome[t].kind = "return"
        /\ op[u] \in RpcOps /\ HandshakeRaised(u) /\ sent[u] = <<"initialize">>

\* C4: initialize_connection called on an initialized client writes nothing and
\* returns the cached capabilities, which are what the call that performed the
\* handshake returned.
C4_CachedIsFirstReturn ==
    \A t \in Tasks :
        outcome[t].kind = "return" /\ outcome[t].stage = "cached" =>
            /\ sent[t] = <<>>
            /\ outcome[t].val = server_capabilities
            /\ outcome[t].val = handshake_result

\* C5: in a successful initialize_connection the request is written, its result
\* is received, the version is detected, the initialized notification is written
\* and only then is _initialized set; _initialized is never set in a state where
\* no initialized notification has been sent.
C5_InitializeOrder ==
    /\ initialized => "initialize_ok" \in history /\ NotificationsSent # {}
    /\ "initialize_ok" \in history => NotificationsSent # {}
    /\ \A j \in NotificationsSent :
          /\ version_info.detected
          /\ "init_result" \in history
          /\ \E i \in RequestsSent : i < j /\ MethodOf(stdin[i]) = "initialize"
    /\ version_info.detected => "init_result" \in history
    /\ \A t \in Tasks :
          /\ pc[t] = "hs_recv" => sent[t] = <<"initialize">>
          /\ pc[t] = "hs_drain" =>
                /\ sent[t] = <<"initialize", "notifications/initialized">>
                /\ Has(response[t], "result")
                /\ version_info.detected

\* initialize_connection has performed the handshake and returned its result.
C5_Witness ==
    \E t \in Tasks :
        /\ op[t] = "initialize_connection"
        /\ outcome[t].kind = "return" /\ outcome[t].stage = "handshake"
        /\ initialized

\* C6: initialize_connection raises ConnectionError whenever the handshake
\* fails (the transport fails at one of its steps, or the response has no
\* result), and after such a failure the client is not initialized.
C6_FailedInitializeNotInitialized ==
    \A t \in Tasks :
        HandshakeRaised(t) => outcome[t].exc = "ConnectionError" /\ ~initialized

\* C6, while no handshake was begun during another: a failed handshake raises
\* ConnectionError and leaves the client not initialized.
C6_FailedInitializeSerialized ==
    "handshakes_overlap" \notin history =>
        \A t \in Tasks :
            HandshakeRaised(t) => outcome[t].exc = "ConnectionError" /\ ~initialized

\* A handshake has failed, none was begun during another, and the next operation
\* has begun the handshake again.
C6_Witness ==
    /\ "handshakes_overlap" \notin history
    /\ opsStarted = 2
    /\ \E t \in Tasks : op[t] \in RpcOps /\ pc[t] = "hs_recv"

\* C7: get_server_version_summary returns the not-detected summary and
\* is_server_compatible returns false in every state, between two operations,
\* in which no initialize_connection has completed successfully, also after one
\* that failed.
C7_NotDetectedBeforeSuccess ==
    ("initialize_ok" \notin history /\ \A t \in Tasks : pc[t] = "idle") =>
        GetServerVersionSummary = NotDetectedSummary /\ ~IsServerCompatible

\* C8: list_tools, list_resources and list_prompts raise ProtocolError whenever
\* the transport raises ConnectionError while it serves the call, whether or not
\* the client was initialized when the call started.
C8_ListTransportFailureIsProtocolError ==
    \A t \in Tasks :
        (/\ op[t] \in ListOps
         /\ outcome[t].kind = "raise"
         /\ outcome[t].cause = "transport.ConnectionError") =>
            outcome[t].exc = "ProtocolError"

\* The response to a list request has no result, a result that is no dict, a
\* result without the key, or an entry under the key that is no list.
MalformedList(key, resp) ==
    \/ ~Has(resp, "result")
    \/ ~IsDict(Get(resp, "result"))
    \/ ~Has(Get(resp, "result"), key)
    \/ TypeOf(Get(Get(resp, "result"), key)) # "list"

\* C9: list_tools, list_resources and list_prompts return the empty list,
\* without raising, for every response whose result is missing or malformed.
C9_MalformedListIsEmpty ==
    \A t \in Tasks :
        (/\ op[t] \in ListOps
         /\ outcome[t].stage = "request"
         /\ response[t] # JAbsent
         /\ MalformedList(ListKey(op[t]), response[t])) =>
            outcome[t] = Return("request", JEmptyList)

\* C10: call_tool, read_resource and get_prompt return a value only when the
\* response holds a result, and then return that result; a response without
\* result raises ProtocolError; an operation that got no response, or whose
\* handshake failed, ends with an exception.
C10_CallReturnsResultOrRaises ==
    \A t \in Tasks :
        op[t] \in CallOps =>
            /\ outcome[t].kind = "return" =>
                  /\ Has(response[t], "result")
                  /\ outcome[t].val = Get(response[t], "result")
            /\ (/\ outcome[t].stage = "request"
                /\ response[t] # JAbsent
                /\ ~Has(response[t], "result")) =>
                  outcome[t].kind = "raise" /\ outcome[t].exc = "ProtocolError"
            /\ (pc[t] = "idle" /\ (response[t] = JAbsent \/ outcome[t].stage = "handshake")) =>
                  outcome[t].kind = "raise"

\* One call has returned the result of its response, while another has raised
\* ProtocolError for a response without result.
C10_Witness ==
    \E t, u \in Tasks :
        /\ op[t] \in CallOps /\ outcome[t].kind = "return"
        /\ outcome[t].val = GoodResult(Method(op[t]))
        /\ op[u] \in CallOps /\ outcome[u].stage = "request"
        /\ response[u] # JAbsent /\ ~Has(response[u], "result")
        /\ outcome[u].exc = "ProtocolError"

\* The tasks whose initialize request is in flight: written, and its response
\* awaited.
HandshakesInFlight == {t \in Tasks : pc[t] = "hs_recv"}

\* The handshake of task t has succeeded (its notification is written, or it
\* has gone on to the operation's own request) having written one initialize
\* request and one initialized notification.
OneRequestOneNotification(t) ==
    /\ Len(sent[t]) >= 2
    /\ SubSeq(sent[t], 1, 2) = <<"initialize", "notifications/initialized">>
    /\ \A i \in 3..Len(sent[t]) : sent[t][i] \notin {"initialize", "notifications/initialized"}

\* The initialize requests and initialized notifications written to the
\* connection so far.
InitializeRequests == {i \in DOMAIN stdin : MethodOf(stdin[i]) = "initialize"}

\* C39: when operations are started concurrently on a client that is not
\* initialized, at most one initialize request is in flight at a time, and a
\* handshake that succeeds has sent exactly one initialize request and exactly
\* one initialized notification.
C39_OneHandshakeInFlight ==
    /\ Cardinality(HandshakesInFlight) <= 1
    /\ \A t \in Tasks : pc[t] \in {"hs_drain", "rq_recv"} /\ "initialize" \in Range(sent[t])
                            => OneRequestOneNotification(t)

\* C39, what holds: each operation that finds the client not initialized
\* performs a handshake of its own, with one request and one notification, so
\* the connection sees one initialize request for every such operation; only
\* while no operation is started during another's handshake is at most one in
\* flight.
C39_OneHandshakePerOperation ==
    /\ "handshakes_overlap" \notin history => Cardinality(HandshakesInFlight) <= 1
    /\ Cardinality(HandshakesInFlight) <= Cardinality(Tasks)
    /\ \A t \in Tasks : pc[t] \in {"hs_drain", "rq_recv"} /\ "initialize" \in Range(sent[t])
                            => OneRequestOneNotification(t)
    /\ Cardinality(InitializeRequests) <= opsStarted

\* Two list operations started concurrently on a client that is not initialized
\* both have their initialize request in flight.
C39_Witness ==
    /\ HandshakesInFlight = Tasks
    /\ \A t \in Tasks : op[t] \in ListOps
    /\ Cardinality(InitializeRequests) = 2
    /\ ~initialized

(***************************************************************************)
(* Properties of the transports' life cycle.                               *)
(***************************************************************************)

\* The transport the last call was made on.
LastTransport == IF last.on = "stdio" THEN stdio ELSE http

\* C16: once close() has been called on a transport, no later call writes to
\* the channel or creates a child process or a session, every later send
\* raises, and a later connect() does not leave the transport connected.
C16_ClosedIsTerminal ==
    last.closed =>
        /\ ~last.wrote
        /\ ~last.created
        /\ last.call \in SendMethods => last.raised # "none"
        /\ last.call = "connect" => ~LastTransport.connected

\* C16, the part that holds: on a closed transport that connect() has not
\* been called on again, every send raises without writing, and
\* send_notification does so on every closed transport.
C16_SendOnClosedFailsUntilConnect ==
    (/\ last.closed
     /\ last.call \in SendMethods
     /\ ~last.connected \/ last.call = "send_notification")
        => ~last.wrote /\ last.raised \in {"ConnectionError", "RuntimeError"}

C16_Witness ==
    /\ last.closed
    /\ last.call = "send_notification"
    /\ last.connected
    /\ last.raised = "RuntimeError"

\* C17: after close() on the process transport returns, every child it
\* started has exited, no reader task is running and it holds no process
\* handle; after close() on the network transport returns, every session it
\* created is closed.
C17_CloseReleasesEverything ==
    /\ (last.call = "close" /\ last.on = "stdio") =>
           /\ \A i \in DOMAIN children : children[i] = "exited"
           /\ \A i \in DOMAIN read_tasks : read_tasks[i] # "running"
           /\ stdio.process = 0
    /\ (last.call = "close" /\ last.on = "http") =>
           \A i \in DOMAIN sessions : sessions[i] = "closed"

\* C17, the part that holds: the first close() of a transport leaves no
\* reader task running, no process handle, and no session open.
C17_FirstCloseDropsHandles ==
    (last.call = "close" /\ ~last.closed) =>
        IF last.on = "stdio"
        THEN /\ \A i \in DOMAIN read_tasks : read_tasks[i] # "running"
             /\ stdio.process = 0
        ELSE /\ \A i \in DOMAIN sessions : sessions[i] = "closed"
             /\ http.session = 0

C17_Witness ==
    /\ last.call = "close"
    /\ last.on = "stdio"
    /\ last.connected
    /\ ~last.closed
    /\ \E i \in DOMAIN read_tasks : read_tasks[i] = "cancelled"

\* C18: connect() on a connected transport and close() on a closed transport
\* return without raising, write nothing, create no child process, reader task
\* or session, release nothing, and leave the state of both transports and of
\* every process, task and session as it was.
C18_RepeatedCallsAreNoOps ==
    [][(/\ ncalls' = ncalls + 1
        /\ \/ last'.call = "connect" /\ last'.connected
           \/ last'.call = "close" /\ last'.closed)
          => /\ last'.raised = "none"
             /\ ~last'.wrote
             /\ ~last'.created
             /\ UNCHANGED <<stdio, http, children, read_tasks, sessions>>]_vars

C18_Witness ==
    /\ {<<"connect", "stdio">>, <<"close", "stdio">>,
        <<"connect", "http">>, <<"close", "http">>} \subseteq repeated
    /\ last.call = "close"
    /\ last.closed

RECURSIVE Messages(_)
\* The documents of the message lines among the lines, in order.
Messages(lines) ==
    IF lines = <<>> THEN <<>>
    ELSE (IF Head(lines).text = "message" THEN <<Head(lines).doc>> ELSE <<>>)
             \o Messages(Tail(lines))

\* Nothing is left to do on the client's side: the reader has taken every
\* line or has ended, and the queue is empty.
Quiescent == response_queue = <<>> /\ (pipe = <<>> \/ read_task = "done")

\* C20: when the child has written a line that is no JSON or is blank, the
\* reader goes on (it ends only at the end of the stream), and once the client
\* has nothing left to do, receive() has delivered every message line the
\* child wrote, in the order written.
C20_ValidLinesDelivered ==
    (\E i \in DOMAIN written : written[i].text # "message") =>
        /\ read_task = "done" => eof /\ pipe = <<>>
        /\ Quiescent => received = Messages(written)

\* C20, the part that holds: it is so as long as no line is longer than the
\* stream's limit, and what has been delivered is always the first messages
\* written, in order.
C20_ShortLinesDelivered ==
    /\ IsPrefix(received, Messages(written))
    /\ (\A i \in DOMAIN written : ~written[i].overlong) =>
           /\ read_task = "done" => eof /\ pipe = <<>>
           /\ Quiescent => received = Messages(written)

C20_Witness ==
    /\ \E i, j, k \in DOMAIN written :
          /\ i < k /\ j < k
          /\ written[i].text = "garbage" /\ ~written[i].overlong
          /\ written[j].text = "blank"
          /\ written[k].text = "message"
    /\ Quiescent
    /\ read_task = "running"
    /\ received = Messages(written)

(***************************************************************************)
(* Properties of a discovery pass.                                         *)
(***************************************************************************)

\* The request the task wrote (a task writes at most one), as a set.
OwnRequests(t) == {i \in DOMAIN wire : wire[i].task = t}

\* What the task returns when it is handed the server's answer to its own
\* request, and when there is none.
OwnOutcome(t) ==
    IF \E i \in OwnRequests(t) : wire[i].answer # JAbsent
    THEN TaskOutcome(t, wire[CHOOSE i \in OwnRequests(t) : TRUE].answer)
    ELSE TaskFailed(t)

\* The server answered the task's request with a result, and did so before
\* the task's timeout had run out.
AnsweredWithResult(t) ==
    \E i \in OwnRequests(t) : Has(wire[i].answer, "result") /\ ~wire[i].late

\* The task's operation failed: its write failed, or the server answered its
\* request with an error, or not at all.
OperationFailed(t) ==
    \A i \in OwnRequests(t) : ~Has(wire[i].answer, "result")

\* The word occurs in the name somewhere, whatever the case of the letters.
ContainsWord(name) ==
    \E word \in {"list", "status", "help"}, i \in 1..Len(name) : OccursAt(name, word, i)

\* C11: when discover_endpoint has returned and exactly one of the three list
\* operations failed while the server answered the two others, every category
\* of the result is what the server reported for it: the empty list for the
\* failing one, the server's list for the others.
C11_OneFailureIsolated ==
    (/\ phase = "done"
     /\ \E c \in Range(Categories) :
           /\ OperationFailed(c)
           /\ \A d \in Range(Categories) \ {c} : AnsweredWithResult(d))
        => \A c \in Range(Categories) : ResultCategory(c) = OwnOutcome(c).names

\* C11, once every answer reaches the task whose request it answers: the same.
C11_OneFailureIsolatedWhenMatched ==
    (/\ phase = "done"
     /\ ~misrouted
     /\ \E c \in Range(Categories) :
           /\ OperationFailed(c)
           /\ \A d \in Range(Categories) \ {c} : AnsweredWithResult(d))
        => \A c \in Range(Categories) : ResultCategory(c) = OwnOutcome(c).names

C11_Witness ==
    /\ phase = "done"
    /\ ~misrouted
    /\ OperationFailed("tools")
    /\ \E i \in OwnRequests("tools") : Has(wire[i].answer, "error")
    /\ ResultCategory("tools") = <<>>
    /\ ResultCategory("resources") = <<ResourceUri>>
    /\ ResultCategory("prompts") = <<PromptName>>

\* The tasks that wrote a request.
Writers == {wire[i].task : i \in DOMAIN wire}

\* The tickle tasks explore_tools created.
TickleTasks == {TickleTask(i) : i \in DOMAIN safe_tools}

\* The tools/call requests written, and those for the tool of the name.
ToolCalls == {i \in DOMAIN wire : wire[i].method = "tools/call"}

CalledName(i) == StrOf(Get(Get(wire[i].message, "params"), "name"))

\* C12: discover_endpoint returns only when no task of the pass is still
\* running, and when the server answered every request in time, in whatever
\* order, every category and every tickle outcome of the result is what the
\* server answered to that operation's own request.
C12_EachGetsItsOwnAnswer ==
    phase = "done" =>
        /\ waiting = <<>>
        /\ \A t \in Writers : finished[t] # Pending
        /\ (\A t \in Writers : \E i \in OwnRequests(t) : wire[i].answer # JAbsent /\ ~wire[i].late)
              => /\ \A c \in Range(Categories) : ResultCategory(c) = OwnOutcome(c).names
                 /\ \A t \in TickleTasks : finished[t] = OwnOutcome(t)

\* C12, the part that holds: discover_endpoint returns only when every task
\* it started has returned, and the answers that reached the tasks whose
\* requests they answer are reported as the server gave them.
C12_ReturnsAfterAllTasks ==
    phase = "done" =>
        /\ waiting = <<>>
        /\ \A t \in Writers : finished[t] # Pending
        /\ ~misrouted =>
              /\ \A c \in Range(Categories) :
                    AnsweredWithResult(c) => ResultCategory(c) = OwnOutcome(c).names
              /\ \A t \in TickleTasks :
                    AnsweredWithResult(t) => finished[t] = OwnOutcome(t)

C12_Witness ==
    /\ phase = "done"
    /\ ~misrouted
    /\ Len(safe_tools) = 2
    /\ \A t \in TickleTasks : AnsweredWithResult(t) /\ finished[t].status = "success"
    /\ \A c \in Range(Categories) : AnsweredWithResult(c)

FailedCalls == {t \in TickleTasks : OperationFailed(t)}

\* The name of the tool the tickle task was created for.
ToolOf(t) == safe_tools[CHOOSE i \in DOMAIN safe_tools : TickleTask(i) = t]

\* C14: when a tool call of the tickle failed, discover_endpoint has still
\* returned, the failing tool is recorded under its name with a status other
\* than success, and every other tickled tool whose call the server answered
\* with a result is recorded with that result.
C14_ToolFailureIsolated ==
    (phase = "done" /\ FailedCalls # {}) =>
        /\ \A t \in FailedCalls : ToolExploration(ToolOf(t)).status # "success"
        /\ \A t \in TickleTasks \ FailedCalls :
              AnsweredWithResult(t) => ToolExploration(ToolOf(t)) = OwnOutcome(t)

\* C14, the part that holds: a failing tool call never keeps discover_endpoint
\* from returning the catalog the list operations produced, every tickled
\* tool is recorded under its name, and when every answer reaches the task
\* whose request it answers the failing tool and the others are recorded as
\* the claim says.
C14_ToolFailureKeepsCatalog ==
    (phase = "done" /\ FailedCalls # {}) =>
        /\ \A c \in Range(Categories) : finished[c].kind = "catalog"
        /\ \A t \in TickleTasks : ToolExploration(ToolOf(t)).kind = "tickle"
        /\ ~misrouted =>
              /\ \A t \in FailedCalls : ToolExploration(ToolOf(t)).status # "success"
              /\ \A t \in TickleTasks \ FailedCalls :
                    AnsweredWithResult(t) => ToolExploration(ToolOf(t)) = OwnOutcome(t)

C14_Witness ==
    /\ phase = "done"
    /\ ~misrouted
    /\ Len(safe_tools) = 2
    /\ \E t \in FailedCalls : \E i \in OwnRequests(t) : Has(wire[i].answer, "error")
    /\ \E t \in TickleTasks \ FailedCalls : finished[t].status = "success"
    /\ ResultCategory("tools") = safe_tools

\* The server answered tools/list, in time, with the single tool list_files.
StubListsOneTool ==
    \E i \in OwnRequests("tools") :
        /\ wire[i].answer = ResultResponse(Get(wire[i].message, "id"),
                                           ItemList("tools", <<"list_files">>))
        /\ ~wire[i].late

\* C15: when the server has answered tools/list with the single tool
\* list_files, a pass with tickle enabled reports exactly that tool, writes
\* exactly one tools/call, for list_files and without arguments, and records
\* success for list_files when the server answered that call with a result.
C15_StubScenario ==
    (phase = "done" /\ tool_tickle /\ StubListsOneTool) =>
        /\ ResultCategory("tools") = <<"list_files">>
        /\ Cardinality(ToolCalls) = 1
        /\ \A i \in ToolCalls :
              /\ CalledName(i) = "list_files"
              /\ Keys(Get(wire[i].message, "params")) = {"name"}
              /\ (Has(wire[i].answer, "result") /\ ~wire[i].late)
                    => ToolExploration("list_files").status = "success"

\* C15, when every answer reaches the task whose request it answers, and no
\* write fails.
C15_StubScenarioWhenMatched ==
    (/\ phase = "done" /\ tool_tickle /\ StubListsOneTool
     /\ ~misrouted
     /\ TickleTasks \subseteq Writers)
        => /\ ResultCategory("tools") = <<"list_files">>
           /\ Cardinality(ToolCalls) = 1
           /\ \A i \in ToolCalls :
                 /\ CalledName(i) = "list_files"
                 /\ Keys(Get(wire[i].message, "params")) = {"name"}
                 /\ (Has(wire[i].answer, "result") /\ ~wire[i].late)
                       => ToolExploration("list_files").status = "success"

C15_Witness ==
    /\ phase = "done"
    /\ tool_tickle
    /\ StubListsOneTool
    /\ ~misrouted
    /\ \A c \in {"resources", "prompts"} :
          \E i \in OwnRequests(c) : Has(wire[i].answer, "error")
    /\ \E i \in ToolCalls : Has(wire[i].answer, "result")
    /\ ToolExploration("list_files").status = "success"

\* The callers suspended in receive_message on the transport's response queue.
QueueWaiters == Len(waiting)

\* C34: at every moment at most one caller is waiting to take a message from
\* the transport's response queue, also while discovery's concurrent list
\* operations and tickle calls are in flight.
C34_SingleConsumer == QueueWaiters <= 1

\* C34, what holds: the queue has one producer, the reader of this connection:
\* every message that waits on the queue is an answer the server wrote to a
\* request of this connection.  It has as many consumers as the gather in
\* progress has tasks (three list operations, or one tickle call for each safe
\* tool), each of them waiting once.
C34_SingleProducerManyConsumers ==
    /\ \A i \in DOMAIN inbox : \E j \in DOMAIN wire : wire[j].answer = inbox[i]
    /\ \A i, j \in DOMAIN waiting : waiting[i] = waiting[j] => i = j
    /\ QueueWaiters <= (IF phase = "listing" THEN Len(Categories) ELSE Len(safe_tools))

\* The three list operations of discover_endpoint are all waiting on the queue.
C34_Witness ==
    /\ phase = "listing"
    /\ QueueWaiters = Len(Categories)
    /\ \A i \in DOMAIN Categories : \E j \in DOMAIN waiting : waiting[j] = Categories[i]

(***************************************************************************)
(* Properties of message validation (ValidationSpec).                      *)
(***************************************************************************)
\* The three message shapes: a request (method and id), a notification (method,
\* no id), a response (id and exactly one of result and error, no method).
IsRequestShape(m) ==
    Has(m, "method") /\ Has(m, "id") /\ ~Has(m, "result") /\ ~Has(m, "error")

IsNotificationShape(m) ==
    Has(m, "method") /\ ~Has(m, "id") /\ ~Has(m, "result") /\ ~Has(m, "error")

IsResponseShape(m) ==
    ~Has(m, "method") /\ Has(m, "id") /\ (Has(m, "result") # Has(m, "error"))

WellFormed(m) ==
    /\ IsDict(m)
    /\ GetOr(m, "jsonrpc", JAbsent) = JStr("2.0")
    /\ IsRequestShape(m) \/ IsNotificationShape(m) \/ IsResponseShape(m)

\* C23: validation accepts a message if and only if it carries jsonrpc "2.0" and
\* is a request, a notification or a response with exactly one of result and
\* error; every other message is rejected with ValidationError.
C23_AcceptsExactlyTheShapes ==
    verdict # "none" => (verdict = "accepted" <=> WellFormed(candidate))

\* C23, the part that holds: every well-formed message is accepted, and a message
\* is rejected when it is no dict, has no jsonrpc tag or another version, has
\* none of method, result and error, or has a result or an error but neither a
\* method nor an id.
C23_AcceptsShapesRejectsListed ==
    verdict # "none" =>
        /\ WellFormed(candidate) => verdict = "accepted"
        /\ ( \/ ~IsDict(candidate)
             \/ GetOr(candidate, "jsonrpc", JAbsent) # JStr("2.0")
             \/ ~Has(candidate, "method") /\ ~Has(candidate, "result") /\ ~Has(candidate, "error")
             \/ ~Has(candidate, "method") /\ ~Has(candidate, "id") )
           => verdict = "ValidationError"

\* A response that carries both a result and an error has been validated.
C23_Witness ==
    /\ verdict # "none"
    /\ IsDict(candidate)
    /\ Get(candidate, "jsonrpc") = JStr("2.0")
    /\ Has(candidate, "id") /\ Has(candidate, "result") /\ Has(candidate, "error")
    /\ ~Has(candidate, "method")

(***************************************************************************)
(* Properties of version detection (DetectionSpec).                        *)
(***************************************************************************)
\* The protocol version detect_version was called with.
StatedVersion ==
    StrOf(GetOr(detect_args.server_info, "protocol_version", JStr("unknown")))

\* detect_version was called for protocol version 2024-11-05 with a capability
\* mapping that has the keys tools, resources and prompts.
CurrentVersionWithBasics ==
    /\ detect_args.called
    /\ StatedVersion = "2024-11-05"
    /\ {"tools", "resources", "prompts"} \subseteq Keys(detect_args.server_capabilities)

\* C28: for protocol version 2024-11-05 and capabilities with the keys tools,
\* resources and prompts, whatever method list is supplied (none included), the
\* detected compatibility is fully_compatible and the confidence is at least 0.9
\* (54 sixtieths).
C28_FullyCompatible ==
    CurrentVersionWithBasics =>
        /\ detected_version.compatibility_status = "fully_compatible"
        /\ detected_version.version_confidence >= 54

\* C28, what the detector returns instead: capability_negotiation and
\* initialization_handshake are features of the table that no pattern detects, so
\* the compatibility is partially_compatible and the confidence is at most 4/6.
C28_PartiallyCompatible ==
    CurrentVersionWithBasics =>
        /\ detected_version.compatibility_status = "partially_compatible"
        /\ detected_version.specification_version = "1.0.0"
        /\ detected_version.version_confidence <= 40
        /\ ~detect_args.available_methods.supplied =>
              /\ detected_version.version_confidence <= 10
              /\ "basic_tools" \notin Range(detected_version.supported_features)

\* The detection of C28 as the handshake calls it: no method list.
C28_Witness ==
    /\ CurrentVersionWithBasics
    /\ ~detect_args.available_methods.supplied
    /\ detected_version.detected

\* detect_version was called with a protocol version the table does not have and
\* an empty capability mapping.
UnlistedVersionNoCapabilities ==
    /\ detect_args.called
    /\ ~InVersionMap(StatedVersion)
    /\ detect_args.server_capabilities = JEmptyObj

\* C29: for a protocol version that is not in the version table and an empty
\* capability mapping, the detected compatibility is uncertain and the confidence
\* is 0.
C29_UncertainZero ==
    UnlistedVersionNoCapabilities =>
        /\ detected_version.compatibility_status = "uncertain"
        /\ detected_version.version_confidence = 0

\* C29, what the detector returns instead: uncertain only for the string
\* "unknown", unknown_version for any other unlisted version, and in both cases
\* specification version 0.8.0 inferred from json_rpc_2.0 alone with confidence
\* 0.4 (24 sixtieths).
C29_InferredFromJsonRpc ==
    UnlistedVersionNoCapabilities =>
        /\ detected_version.compatibility_status =
              (IF StatedVersion = "unknown" THEN "uncertain" ELSE "unknown_version")
        /\ detected_version.supported_features = <<"json_rpc_2.0">>
        /\ detected_version.specification_version = "0.8.0"
        /\ detected_version.version_confidence = 24

\* The detection of C29 for a version string of a later protocol revision.
C29_Witness ==
    /\ UnlistedVersionNoCapabilities
    /\ StatedVersion = "2025-03-26"
    /\ detected_version.detected

\* The names detect_version reported as supported features in the last call.
ReportedFeatures == Range(detected_version.supported_features)

\* No usable method list was supplied in the last call (None, or an empty list).
NoMethodList == detect_args.available_methods.list = <<>>

\* The required capabilities of the pattern are all found in the capability
\* mapping of the last call.
CapabilitiesFound(pattern) ==
    CheckCapabilities(detect_args.server_capabilities, pattern.capabilities)

\* C36: with no method list supplied the capabilities alone decide: each named
\* feature is reported exactly when its required capabilities are all found by
\* dotted-path lookup; and json_rpc_2.0 is reported in every call.
C36_CapabilitiesAloneDecide ==
    detect_args.called =>
        /\ "json_rpc_2.0" \in ReportedFeatures
        /\ NoMethodList =>
              \A i \in DOMAIN FEATURE_PATTERNS :
                  FEATURE_PATTERNS[i].name \in ReportedFeatures
                      <=> CapabilitiesFound(FEATURE_PATTERNS[i])

\* C36, what holds: json_rpc_2.0 is reported in every call; a feature that
\* requires capabilities only is reported exactly when they are all found; a
\* feature that also requires methods is reported exactly when a method list is
\* supplied, holds all of its methods, and its capabilities are all found, and
\* so never without a method list.
C36_BothRequirementsOrNothing ==
    detect_args.called =>
        /\ "json_rpc_2.0" \in ReportedFeatures
        /\ \A i \in DOMAIN FEATURE_PATTERNS :
              FEATURE_PATTERNS[i].name \in ReportedFeatures <=>
                  /\ CapabilitiesFound(FEATURE_PATTERNS[i])
                  /\ FEATURE_PATTERNS[i].methods # {} =>
                        /\ ~NoMethodList
                        /\ FEATURE_PATTERNS[i].methods
                              \subseteq Range(detect_args.available_methods.list)

\* detect_version was called without a method list on a capability mapping that
\* has tools, resources and prompts, and reported none of the three features.
C36_Witness ==
    /\ detect_args.called
    /\ ~detect_args.available_methods.supplied
    /\ {"tools", "resources", "prompts"} \subseteq Keys(detect_args.server_capabilities)
    /\ ReportedFeatures \cap {"basic_tools", "basic_resources", "basic_prompts"} = {}
    /\ "json_rpc_2.0" \in ReportedFeatures

(***************************************************************************)
(* Properties of the calls on a connected transport (ExchangeSpec).        *)
(***************************************************************************)
\* A send_request is in progress.
InSendRequest == rpc.call = "send_request" /\ rpc_pc # "idle"

\* C21: every send_request on a connected transport eventually returns a
\* response or raises, whatever the peer does; it never blocks forever.
C21_SendRequestEnds == InSendRequest ~> (rpc_pc = "idle")

\* C21, the part that holds: once the request is written out, the call ends, and
\* a wait for the response that runs out raises TimeoutError; every send_request
\* on the network transport ends.
C21_EndsOnceWritten ==
    (rpc_pc \in {"recv", "post"}) ~> (rpc_pc = "idle")

\* A timeout that elapsed surfaces as TimeoutError, and as nothing else.
C21_TimeoutIsRaised ==
    [][(WaitForTimesOut \/ PostTimesOut) =>
          rpc_result'.kind = "raise" /\ rpc_result'.exc = "TimeoutError"]_vars

\* A send_request on the process transport waits in drain() while the child has
\* stopped reading and the pipe is full.
C21_Witness ==
    /\ InSendRequest
    /\ rpc.on = "stdio"
    /\ rpc_pc = "drain"
    /\ peer = "stalled"
    /\ unread > PipeRoom

\* The last call has ended and was a call of the name.
Ended(name) == rpc.call = name /\ rpc_pc = "idle" /\ rpc_result.kind # "none"

\* The reply a call was given is a JSON-RPC response with an error field.
CarriesError(reply) ==
    /\ reply.text = "json"
    /\ ValidateJsonRpcMessage(reply.doc)
    /\ Has(reply.doc, "error")

\* The reply is an HTTP response whose status is not a success (2xx).
NonSuccessStatus(reply) == reply.status # 0 /\ ~(reply.status \in 200..299)

\* The reply is an HTTP response with an empty body.
EmptyBody(reply) == reply.status # 0 /\ reply.text = "empty"

RaisedProtocolError ==
    /\ rpc_result.kind = "raise"
    /\ rpc_result.exc = "ProtocolError"
    /\ rpc_result.val = JAbsent

\* C22: send_request raises ProtocolError and returns no response for every
\* erroring reply: a JSON-RPC response with an error field (the exception carries
\* the error's code and message), and on the network transport a non-success HTTP
\* status (the exception carries the body text) or an empty body.
C22_ErroringReplyIsProtocolError ==
    Ended("send_request") =>
        LET reply == rpc_result.reply
        IN  /\ NonSuccessStatus(reply) =>
                  /\ RaisedProtocolError
                  /\ rpc_result.detail.status = reply.status
                  /\ rpc_result.detail.body = BodyText(reply)
            /\ EmptyBody(reply) => RaisedProtocolError
            /\ (~NonSuccessStatus(reply) /\ CarriesError(reply)) =>
                  /\ RaisedProtocolError
                  /\ rpc_result.detail.code = GetOr(Get(reply.doc, "error"), "code", JAbsent)
                  /\ rpc_result.detail.message = GetOr(Get(reply.doc, "error"), "message", JAbsent)

\* C22, the part that holds: ProtocolError with the code and message for an
\* error field that is an object, with the status and body text for an HTTP
\* status of 400 or more, and for an empty body.
C22_ErrorObjectOrStatus400 ==
    Ended("send_request") =>
        LET reply == rpc_result.reply
        IN  /\ reply.status >= 400 =>
                  /\ RaisedProtocolError
                  /\ rpc_result.detail.status = reply.status
                  /\ rpc_result.detail.body = BodyText(reply)
            /\ EmptyBody(reply) => RaisedProtocolError
            /\ (reply.status < 400 /\ CarriesError(reply) /\ IsDict(Get(reply.doc, "error"))) =>
                  /\ RaisedProtocolError
                  /\ rpc_result.detail.code = Get(Get(reply.doc, "error"), "code")
                  /\ rpc_result.detail.message = Get(Get(reply.doc, "error"), "message")
            /\ rpc_result.kind = "return" =>
                  /\ rpc_result.val = reply.doc
                  /\ ~Has(rpc_result.val, "error")

\* A send_request on the process transport was given a response whose error field
\* is a string.
C22_Witness ==
    /\ Ended("send_request")
    /\ rpc.on = "stdio"
    /\ CarriesError(rpc_result.reply)
    /\ ~IsDict(Get(rpc_result.reply.doc, "error"))

\* C24: a send_message of a message that fails validation transmits nothing and
\* raises ValidationError, on both transports; a receive_message that takes a
\* message failing validation raises ValidationError and returns no message.
C24_InvalidIsValidationError ==
    /\ (Ended("send_message") /\ ~ValidateJsonRpcMessage(rpc.message)) =>
          /\ Len(channel) = rpc.before
          /\ rpc_result.kind = "raise"
          /\ rpc_result.exc = "ValidationError"
    /\ (Ended("receive_message") /\ rpc_result.reply.text = "json"
          /\ ~ValidateJsonRpcMessage(rpc_result.reply.doc)) =>
          /\ rpc_result.kind = "raise"
          /\ rpc_result.exc = "ValidationError"
          /\ rpc_result.val = JAbsent

\* C24, the part that holds: no message that fails validation is ever
\* transmitted; the send raises ValidationError on the network transport and
\* ConnectionError, caused by the ValidationError, on the process transport;
\* receive_message raises ValidationError.
C24_InvalidNeverTransmitted ==
    /\ \A i \in DOMAIN channel : ValidateJsonRpcMessage(channel[i].message)
    /\ (Ended("send_message") /\ ~ValidateJsonRpcMessage(rpc.message)) =>
          /\ Len(channel) = rpc.before
          /\ rpc_result.kind = "raise"
          /\ rpc.on = "http" => rpc_result.exc = "ValidationError"
          /\ rpc.on = "stdio" =>
                rpc_result.exc = "ConnectionError" /\ rpc_result.cause = "ValidationError"
    /\ (Ended("receive_message") /\ rpc_result.reply.text = "json"
          /\ ~ValidateJsonRpcMessage(rpc_result.reply.doc)) =>
          /\ rpc_result.kind = "raise"
          /\ rpc_result.exc = "ValidationError"
          /\ rpc_result.val = JAbsent

\* A send_message of a message without the jsonrpc tag has ended on the process
\* transport, after an earlier message was transmitted.
C24_Witness ==
    /\ Ended("send_message")
    /\ rpc.on = "stdio"
    /\ ~Has(rpc.message, "jsonrpc")
    /\ channel # <<>>

(***************************************************************************)
(* The Execution Engine's existence check (EngineSpec).                    *)
(***************************************************************************)
\* An engine operation has ended.
EngineEnded == engine_pc = "idle" /\ engine_result.kind # "none"

\* The existence check of the engine operation has been made.
Checked == engine_call.op # "none" /\ engine_pc # "validate"

\* The method of the request that carries out the engine operation.
ExecuteMethod == Method(ExecuteOp(engine_call.op))

\* The existence lookup failed: the list operation raised, or its request was
\* answered with a missing or malformed result.
LookupFailed ==
    \/ lookup.kind = "raise"
    \/ /\ lookup_reply.raised = ""
       /\ MalformedList(ListKey(LookupOp(engine_call.op)), lookup_reply.msg)

\* The existence lookup succeeded: the list operation returned the array of a
\* well-formed result.
LookupSucceeded == lookup.kind = "return" /\ ~LookupFailed

\* The listed items, and the names among them.
ListedItems == {Get(lookup.val, k) : k \in Keys(lookup.val)}

ListedNames ==
    {StrOf(Get(i, NameKey(engine_call.op))) :
        i \in {j \in ListedItems : IsDict(j) /\ TypeOf(Get(j, NameKey(engine_call.op))) = "str"}}

\* Every listed item is an object with a string under the name key.
ItemsAreNamed ==
    \A i \in ListedItems : IsDict(i) /\ TypeOf(Get(i, NameKey(engine_call.op))) = "str"

\* The engine operation ended with the ValidationError of the existence check,
\* which names every listed name, and the request was not issued.
StoppedAsUnknown ==
    /\ EngineEnded
    /\ engine_result.kind = "raise"
    /\ engine_result.exc = "ValidationError"
    /\ ListedNames \subseteq Range(engine_result.available)
    /\ ExecuteMethod \notin Range(engine_sent)

\* C26: when the existence lookup succeeds and the requested name is not among
\* the listed items, the engine operation raises ValidationError naming the
\* alternatives and issues no tools/call, resources/read or prompts/get request.
C26_UnknownNameIsValidationError ==
    (Checked /\ LookupSucceeded /\ engine_call.name \notin ListedNames) => StoppedAsUnknown

\* C26, for the lists whose items all carry a name: the same, and the
\* alternatives named are exactly the listed names ("none" for the empty list).
C26_UnknownAmongNamedItems ==
    (Checked /\ LookupSucceeded /\ ItemsAreNamed /\ engine_call.name \notin ListedNames) =>
        /\ StoppedAsUnknown
        /\ Range(engine_result.available) = (IF ListedNames = {} THEN {"none"} ELSE ListedNames)

\* gamma is asked for and alpha and beta are listed.
C26_Witness ==
    /\ EngineEnded
    /\ LookupSucceeded
    /\ engine_call.name = "gamma"
    /\ engine_result.exc = "ValidationError"
    /\ engine_result.available = <<"alpha", "beta">>
    /\ ExecuteMethod \notin Range(engine_sent)

\* The engine went on from the existence check with a warning: the client
\* operation was called, and its request issued once the handshake was made.
WentOnWithWarning ==
    /\ warnings # <<>>
    /\ engine_result.stage # "validate"
    /\ (EngineEnded /\ engine_initialized) => ExecuteMethod \in Range(engine_sent)

\* C27: a lookup that fails, in whatever way, never blocks the operation: the
\* engine logs a warning and still issues the request.
C27_FailedLookupNeverBlocks == (Checked /\ LookupFailed) => WentOnWithWarning

\* C27, for the lookups that raise (transport error, timeout, error response, an
\* entry len() or the item loop cannot take).
C27_RaisingLookupNeverBlocks ==
    (Checked /\ (lookup.kind = "raise" \/ warnings # <<>>)) => WentOnWithWarning

\* The list request timed out and the tool was called all the same.
C27_Witness ==
    /\ EngineEnded
    /\ engine_call.op = "execute_tool"
    /\ lookup.kind = "raise"
    /\ lookup.cause = "TimeoutError"
    /\ warnings = <<"ProtocolError">>
    /\ engine_result.kind = "return"
    /\ engine_sent = <<"initialize", "notifications/initialized", "tools/list", "tools/call">>

(***************************************************************************)
(* The client's close and its cached capabilities (OwnerSpec).             *)
(***************************************************************************)
\* MCPClient.close has just returned.
JustClosed == owner_last.call = "close"

\* The goodbye notification was attempted exactly when the client was
\* initialized and the transport connected, and transport.close was called.
GoodbyeThenTransportClose ==
    /\ (owner_last.goodbye # "none") <=>
           (owner_last.was.initialized /\ owner_last.was.connected)
    /\ owner_last.transport_close # "none"

\* C25: client close attempts the goodbye notification only if initialized and
\* connected, then calls the transport's close whether or not that failed, and
\* when it returns the client is not initialized, on every path, one where a
\* step of closing raises included.
C25_CloseLeavesUninitialized ==
    JustClosed => (GoodbyeThenTransportClose /\ ~owner_initialized)

\* C25, where the transport's close returns: a failed goodbye included.
C25_CloseResetsWhenTransportCloses ==
    JustClosed =>
        /\ GoodbyeThenTransportClose
        /\ owner_last.transport_close = "returned" => ~owner_initialized
        /\ LinkIsConnected = FALSE

\* The goodbye notification failed and the client was closed all the same.
C25_Witness ==
    /\ JustClosed
    /\ owner_last.was.initialized
    /\ owner_last.goodbye = "failed"
    /\ owner_last.transport_close = "returned"
    /\ ~owner_initialized

\* C30: no operation hands out the live cached mapping: whatever the caller
\* assigns into the values it was handed, the client reports the capabilities
\* the handshake captured.
C30_CachedMappingNeverChanges == captured.set => Reported = captured.value

\* C30, for the top level of the copy the server_capabilities property returns:
\* an assignment under one of its keys changes nothing of what the client reports.
C30_CopyTopLevelIsTheCallers ==
    [][(/\ mutations' # mutations
        /\ owner_last'.call = "assign"
        /\ owner_last'.target \in copies) => Reported' = Reported]_vars

\* After a handshake the caller has assigned into a copy the property returned.
C30_Witness ==
    /\ captured.set
    /\ owner_last.call = "assign"
    /\ owner_last.target \in copies
    /\ "added" \in DOMAIN heap[owner_last.target]
    /\ Reported = captured.value

(***************************************************************************)
(* Properties of the authentication provider (AuthSpec).                   *)
(***************************************************************************)
\* The credential of each source of the last call, None when the source is
\* absent: the explicit header (written as a header value), the explicit key,
\* the variable named after the endpoint's host, and MCPEEK_API_KEY.
HeaderCredential ==
    IF ~Truthy(auth_args.auth_header) THEN None
    ELSE IF StartsWith(auth_args.auth_header.str, "Bearer ")
            \/ StartsWith(auth_args.auth_header.str, "Basic ")
         THEN auth_args.auth_header
         ELSE Some("Bearer " \o auth_args.auth_header.str)

KeyCredential ==
    IF Truthy(auth_args.api_key) THEN Some("Bearer " \o auth_args.api_key.str) ELSE None

VariableCredential(key_name) ==
    IF key_name \in DOMAIN auth_args.environ /\ Strip(auth_args.environ[key_name]) # ""
    THEN Some("Bearer " \o Strip(auth_args.environ[key_name]))
    ELSE None

EndpointCredential ==
    IF GetEndpointEnvKey(auth_args.endpoint).some
    THEN VariableCredential(GetEndpointEnvKey(auth_args.endpoint).str)
    ELSE None

GenericCredential == VariableCredential("MCPEEK_API_KEY")

\* The mapping that carries the first credential of the sequence that is present.
RECURSIVE FirstPresent(_)
FirstPresent(credentials) ==
    IF credentials = <<>> THEN {}
    ELSE IF Head(credentials).some THEN Authorization(Head(credentials).str)
    ELSE FirstPresent(Tail(credentials))

\* C31: get_auth_headers returns the credential of the first source present in
\* the order explicit auth header, explicit API key, endpoint-specific
\* environment variable, generic environment variable, and an empty mapping when
\* none is present.
C31_PrecedenceAsStated ==
    auth_args.called =>
        auth_headers = FirstPresent(<<HeaderCredential, KeyCredential, EndpointCredential,
                                      GenericCredential>>)

\* C31, what holds: the stated precedence is followed in every call in which
\* the two environment variables do not both carry a credential (or carry the
\* same one); when they differ, and no header or key is given, the generic
\* variable's credential is the one returned.
C31_PrecedenceUnlessBothVariables ==
    auth_args.called =>
        IF HeaderCredential.some \/ KeyCredential.some
           \/ ~(EndpointCredential.some /\ GenericCredential.some)
        THEN auth_headers = FirstPresent(<<HeaderCredential, KeyCredential,
                                           EndpointCredential, GenericCredential>>)
        ELSE auth_headers = Authorization(GenericCredential.str)

\* A call with no header and no key, for a host whose variable and
\* MCPEEK_API_KEY both carry a credential, and not the same one.
C31_Witness ==
    /\ auth_args.called
    /\ ~HeaderCredential.some /\ ~KeyCredential.some
    /\ EndpointCredential.some /\ GenericCredential.some
    /\ EndpointCredential # GenericCredential
    /\ auth_headers = Authorization(GenericCredential.str)

(***************************************************************************)
(* Properties of a command of the CLI (CliSpec).                           *)
(***************************************************************************)
\* validate_arguments has been called on cli_args.
Validated == cli_verdict # "none"

\* The Namespace enables tool-tickle, and does not ask for discovery.
TickleWithoutDiscover ==
    /\ IsTrue(DictGet(cli_args, "tool_tickle"))
    /\ ~IsTrue(DictGet(cli_args, "discover"))

\* The message contains the phrase.
Mentions(message, phrase) ==
    \E i \in 1..(Len(message) - Len(phrase) + 1) :
        SubSeq(message, i, i + Len(phrase) - 1) = phrase

\* C32: an argument set that enables tool-tickle without --discover is rejected
\* with a message saying that tool-tickle requires --discover mode.
C32_TickleWithoutDiscoverRejected ==
    (Validated /\ TickleWithoutDiscover) =>
        /\ cli_verdict # "accepted"
        /\ Mentions(cli_verdict, "tool-tickle requires --discover mode")

\* C32, what holds: validation never gives tool-tickle as the reason.  An
\* argument set with tool-tickle and without --discover is rejected only for
\* what is wrong with it otherwise (no endpoint, no mode or several, --stdin
\* with --input, verbosity above 3), and accepted with exactly one of --tool,
\* --resource and --prompt.
C32_TickleIsNeverTheReason ==
    (Validated /\ TickleWithoutDiscover) =>
        /\ ~Mentions(cli_verdict, "tool-tickle")
        /\ cli_verdict = "accepted" <=>
              /\ IsTrue(cli_args["endpoint"])
              /\ Cardinality({m \in {"tool", "resource", "prompt"} : IsTrue(cli_args[m])}) = 1
              /\ ~(IsTrue(cli_args["stdin"]) /\ IsTrue(cli_args["input"]))
              /\ cli_args["verbosity"].n <= 3

\* tool_tickle=True with --tool and no --discover has been validated, and was
\* accepted.
C32_Witness ==
    /\ Validated /\ TickleWithoutDiscover
    /\ IsTrue(cli_args["tool"])
    /\ cli_verdict = "accepted"

\* The engine operation of the mode the validated Namespace asks for.
ModeOperation ==
    IF IsTrue(cli_args["discover"]) THEN "discover_endpoint"
    ELSE IF IsTrue(cli_args["tool"]) THEN "execute_tool"
    ELSE IF IsTrue(cli_args["resource"]) THEN "read_resource"
    ELSE "get_prompt"

\* execute_command has run on an accepted Namespace and connected its transport.
RanConnected == cli_verdict = "accepted" /\ cli_run.ran /\ cli_run.connected

\* C40: for each mode validation accepts, execute_command invokes the engine
\* operation of that mode on the connected client.
C40_ModeInvokesItsOperation == RanConnected => cli_run.invoked = ModeOperation

\* C40, what holds: --discover, --tool and --resource invoke their operation;
\* --prompt invokes none: the command ends with the ValidationError of the else
\* branch and returns 1, after closing the client.
C40_AllModesButPrompt ==
    RanConnected =>
        IF ModeOperation # "get_prompt" THEN cli_run.invoked = ModeOperation
        ELSE /\ cli_run.invoked = "none"
             /\ cli_run.raised = "ValidationError: No valid operation specified"
             /\ cli_run.closed /\ cli_run.exit = 1

\* An accepted --prompt command has run on a connected transport.
C40_Witness ==
    /\ RanConnected
    /\ IsTrue(cli_args["prompt"])
    /\ "prompt" \notin DOMAIN cli_run.config
    /\ cli_run.invoked = "none"

(***************************************************************************)
(* Properties of the creation of a transport (SpawnSpec).                  *)
(***************************************************************************)
\* The endpoint of the last call selects the process transport.
ProcessEndpoint ==
    /\ spawn.called
    /\ ~(StartsWith(spawn.endpoint, "http://") \/ StartsWith(spawn.endpoint, "https://"))

\* The executable the endpoint names: the endpoint itself, or the first word of
\* a command line.
EndpointExecutable ==
    IF HasSpace(spawn.endpoint) THEN ShlexSplit(spawn.endpoint)[1] ELSE spawn.endpoint

\* How far below the starting directory the walk along the first k components
\* of a relative path ends (negative: above it).
RECURSIVE Depth(_, _)
Depth(comps, k) ==
    IF k = 0 THEN 0
    ELSE IF comps[k] \in {"", "."} THEN Depth(comps, k - 1)
    ELSE IF comps[k] = ".." THEN Depth(comps, k - 1) - 1
    ELSE IF Depth(comps, k - 1) < 0 THEN Depth(comps, k - 1)
    ELSE Depth(comps, k - 1) + 1

\* The relative path leads to a location above the current directory.
LeadsAbove(path) ==
    /\ ~StartsWith(path, "/")
    /\ Depth(SplitOn(path, "/"), Len(SplitOn(path, "/"))) < 0

\* C37: an endpoint of the process transport whose executable path leads above
\* the current directory is rejected with ValidationError and starts no process.
C37_NoSpawnAboveCurrentDirectory ==
    (ProcessEndpoint /\ LeadsAbove(EndpointExecutable)) =>
        /\ spawn.raised = "ValidationError"
        /\ spawn.spawned = <<>>

\* C37, what holds: that is so for every endpoint with arguments (a command
\* line with a space); an endpoint that is one word is started as it is written.
C37_SanitizedWithArguments ==
    ProcessEndpoint =>
        IF HasSpace(spawn.endpoint)
        THEN /\ LeadsAbove(EndpointExecutable) =>
                  spawn.raised = "ValidationError" /\ spawn.spawned = <<>>
             /\ spawn.spawned # <<>> => ~LeadsAbove(spawn.spawned[1])
        ELSE spawn.raised # "ValidationError"
             /\ spawn.spawned \in {<<>>, <<spawn.endpoint>>}

\* An endpoint without arguments whose path leads above the current directory
\* was started.
C37_Witness ==
    /\ ProcessEndpoint
    /\ ~HasSpace(spawn.endpoint)
    /\ LeadsAbove(spawn.endpoint)
    /\ spawn.spawned = <<spawn.endpoint>>

(***************************************************************************)
(* Properties of the descriptors (DescriptorSpec).                         *)
(***************************************************************************)
\* The level the engine works at: the verbosity it was created with, brought
\* into 0..3.
Level ==
    IF raw_record.verbosity < 0 THEN 0
    ELSE IF raw_record.verbosity > 3 THEN 3 ELSE raw_record.verbosity

\* The schema the record came with: inputSchema of a tool, arguments of a prompt.
RawSchema ==
    GetOr(raw_record.data, IF raw_record.kind = "tool" THEN "inputSchema" ELSE "arguments",
          JEmptyObj)

\* The names of the parameters the record declares.
ParameterNames ==
    IF TypeOf(RawSchema) = "list"
    THEN {StrOf(GetOr(Get(RawSchema, i), "name", JStr("arg_" \o ToString(j - 1)))) :
             <<i, j>> \in {<<ToString(n), n>> : n \in 1..2}}
    ELSE Keys(Get(RawSchema, "properties"))

\* What the record has beyond uri, name, description and mimeType.
RawMetadata ==
    {e \in raw_record.data :
        Len(e[1]) = 0 \/ e[1][1] \notin {"uri", "name", "description", "mimeType"}}

\* A field of the descriptor is empty: "" or {}.
Empty(v) == v \in {JStr(""), JEmptyObj}

\* The details above the name: for a tool or a prompt the parameters are the
\* record's parameter names from level 1 and empty below, and the schema is the
\* raw schema from level 3 and empty below; for a resource the metadata is the
\* raw metadata from level 3 and empty below.
DetailsByLevel ==
    IF raw_record.kind = "resource"
    THEN descriptor.metadata = (IF Level >= 3 THEN RawMetadata ELSE JEmptyObj)
    ELSE /\ Keys(descriptor.parameters) = (IF Level >= 1 THEN ParameterNames ELSE {})
         /\ descriptor.schema = (IF Level >= 3 THEN RawSchema ELSE JEmptyObj)

\* C38: the verbosity is clamped to 0..3; at level 0 a descriptor contains only
\* the name (the uri for a resource); from level 1 also the description and the
\* parameter names; from level 3 also the full raw schema or metadata.
C38_NameOnlyAtLevelZero ==
    raw_record.called =>
        /\ DetailsByLevel
        /\ IF Level >= 1
           THEN descriptor.description = GetOr(raw_record.data, "description", JStr(""))
           ELSE /\ Empty(descriptor.description)
                /\ raw_record.kind = "resource" =>
                      Empty(descriptor.name) /\ Empty(descriptor.mime_type)

\* C38 as it holds: the verbosity is clamped to 0..3; every descriptor contains
\* the name and the description of its record at every level (a resource also
\* its uri and mimeType); parameters and schema or metadata follow the levels.
C38_DescriptionAtEveryLevel ==
    raw_record.called =>
        /\ DetailsByLevel
        /\ descriptor.description = GetOr(raw_record.data, "description", JStr(""))
        /\ descriptor.name =
              GetOr(raw_record.data, "name",
                    IF raw_record.kind = "resource" THEN JStr("") ELSE JStr("unknown"))
        /\ raw_record.kind = "resource" =>
              /\ descriptor.uri = Get(raw_record.data, "uri")
              /\ descriptor.mime_type = GetOr(raw_record.data, "mimeType", JStr(""))

\* A record with a description and a schema has been processed at level 0: the
\* descriptor has the description, and neither parameters nor schema.
C38_Witness ==
    /\ raw_record.called /\ raw_record.kind = "tool"
    /\ Level = 0
    /\ ParameterNames # {}
    /\ descriptor.description = JStr("Lists files")
    /\ descriptor.parameters = JEmptyObj /\ descriptor.schema = JEmptyObj

(***************************************************************************)
(* Properties of the shutdown of a process transport (ShutdownSpec).       *)
(***************************************************************************)
\* The steps of the shutdown taken so far.
StepsTaken == {shutdown.steps[i] : i \in DOMAIN shutdown.steps}

\* The place of a step in the documented sequence.
StepRank(step) ==
    CASE step = "cancel_reader" -> 1
      [] step = "close_stdin" -> 2
      [] step = "terminate" -> 3
      [] step = "wait" -> 4
      [] step = "kill" -> 5

\* The steps taken are in the documented order, none of them twice.
StepsInOrder ==
    \A i, j \in DOMAIN shutdown.steps :
        i < j => StepRank(shutdown.steps[i]) < StepRank(shutdown.steps[j])

\* _cleanup has returned.
CleanupDone == shutdown.pc \in {"return", "returned"}

\* The transport held a process when it was closed: _cleanup entered its
\* second block.
ClosedWithProcess == CleanupDone /\ "close_stdin" \in StepsTaken

\* A force-kill only after the request to terminate and the expiry of the
\* grace period with the child alive, and always then.
KillOnlyAndAlwaysOnExpiry ==
    /\ "kill" \in StepsTaken => ("terminate" \in StepsTaken /\ shutdown.grace_expired)
    /\ (shutdown.grace_expired /\ shutdown.pc # "kill") => "kill" \in StepsTaken

\* The steps after the close of the child's input: termination is requested,
\* and the child is waited for unless the event loop had seen it exit.
TerminatedAndAwaited ==
    /\ "terminate" \in StepsTaken
    /\ "wait" \in StepsTaken \/ shutdown.lookup_error

\* C33: in every close() of a process transport the steps come in the order
\* reader cancelled, input closed, termination requested, wait; a kill is
\* issued only after termination was requested and the grace period expired
\* with the child alive, and always then.
C33_ShutdownSteps ==
    /\ StepsInOrder
    /\ CleanupDone => shutdown.read_task # "running"
    /\ ClosedWithProcess => TerminatedAndAwaited
    /\ KillOnlyAndAlwaysOnExpiry

\* C33, what the code guarantees: the order and the conditions of the kill
\* hold in every close(); termination is requested and awaited whenever the
\* close of the child's input did not raise.
C33_ShutdownStepsUnlessStdinRaises ==
    /\ StepsInOrder
    /\ CleanupDone => shutdown.read_task # "running"
    /\ (ClosedWithProcess /\ ~shutdown.stdin_raised) => TerminatedAndAwaited
    /\ (ClosedWithProcess /\ shutdown.stdin_raised) =>
           StepsTaken \subseteq {"cancel_reader", "close_stdin"}
    /\ KillOnlyAndAlwaysOnExpiry

\* C33 witness: a close() that took all five steps, the kill after the
\* grace period expired.
C33_Witness ==
    /\ CleanupDone
    /\ shutdown.steps = <<"cancel_reader", "close_stdin", "terminate", "wait", "kill">>
    /\ shutdown.grace_expired
    /\ shutdown.child = "exited"

\* The command has returned after its transport had started a child.
ReturnedAfterConnect == shutdown.pc = "returned" /\ shutdown.child # "none"

\* C35: whenever a command ends after its process transport was connected,
\* by success, error or interrupt, the client is closed before it returns:
\* the child is terminated and the reader is cancelled.
C35_CommandEndStopsChild ==
    ReturnedAfterConnect =>
        /\ shutdown.closed /\ ~shutdown.connected
        /\ shutdown.read_task \in {"cancelled", "done"}
        /\ shutdown.child = "exited"

\* C35, what the code guarantees: the client is closed before the command
\* returns on every ending, the reader no longer runs and the handle is
\* dropped; the child has exited whenever closing its input did not raise.
C35_CommandEndClosesClient ==
    ReturnedAfterConnect =>
        /\ shutdown.closed /\ ~shutdown.connected /\ ~shutdown.process
        /\ shutdown.read_task \in {"cancelled", "done"}
        /\ shutdown.exit = ExitCode(shutdown.ending)
        /\ ~shutdown.stdin_raised => shutdown.child = "exited"

\* C35 witness: an interrupted command has returned; its child ignored the
\* request to terminate and was killed, its reader was cancelled.
C35_Witness ==
    /\ ReturnedAfterConnect
    /\ shutdown.ending = "interrupt"
    /\ shutdown.exit = 130
    /\ "kill" \in StepsTaken
    /\ shutdown.read_task = "cancelled"
    /\ shutdown.child = "exited"

====
